---- MODULE Spec2Model ----
(***************************************************************************)
(* Model of the scoring engine of coffee-concierge (src/scoring.py), of     *)
(* the About Ratings page's mirror of it and of the place-details client   *)
(* (src/services/places.py).                                               *)
(*                                                                         *)
(* Python values are tagged records:                                       *)
(*   None                 the Python None                                  *)
(*   NaN                  float('nan')                                     *)
(*   Num(n, d)            the real number n/d, kept in lowest terms, d > 0 *)
(*   Bool(b)              True / False                                     *)
(*   Str                  a text that does not spell a number              *)
(*   Hours(h)             a dict day -> entry (the hours_json attribute)   *)
(*   ZeroDivision         the ZeroDivisionError a division by 0 raises     *)
(*   ValueError           the ValueError float() raises on such a text     *)
(*   TypeError            the TypeError arithmetic on such a text raises   *)
(*   Tuple(s, c)          the pair combine returns                         *)
(* Floats are modelled by the exact rationals they approximate; round(x,1) *)
(* of a value lying exactly halfway between two tenths goes to the even    *)
(* tenth, where the float's representation error decides in Python.        *)
(***************************************************************************)
EXTENDS Integers, Sequences, FiniteSets, TLC

VARIABLES
    parts,      \* the list of (strength, weight) pairs a caller hands to combine
    ret,        \* what combine returned for parts, or NoCall
    row,        \* the shop record: a function from the keys present to values
    walkCount,  \* keyword argument nearby_walkables_count (None when not given)
    parksCount, \* keyword argument nearby_parks_count (None when not given)
    results,    \* the mapping compute_all_vibes returned for row, or NoCall
    edits,      \* how many times the caller changed its inputs
    base,       \* an earlier call of compute_all_vibes the caller kept: its
                \* arguments and what it returned, or NoCall
    arg,        \* the argument a caller hands to a normalizer
    out,        \* the normalizer called on arg and what it returned, or NoCall
    env,        \* whether the environment holds a non-blank GOOGLE_MAPS_API_KEY
    cache,      \* the lru_cache of get_place_details and of get_primary_photo_bytes:
                \* per function the entries <<arguments, result>>, least recently
                \* used first
    pc,         \* where the call of services/places.py in progress stands
    key,        \* its local `key`, as a truth value
    place_id,   \* its local `place_id`
    ref,        \* its local `ref`
    debug,      \* its local `debug`
    sent        \* the HTTP requests it has issued, each with the answer it got

\* the state of services/places.py, which the scoring engine never touches
placesVars == <<env, cache, pc, key, place_id, ref, debug, sent>>
vars == <<parts, ret, row, walkCount, parksCount, results, edits, base, arg, out,
          placesVars>>

-----------------------------------------------------------------------------
(* Values *)

None == [t |-> "none"]
NaN == [t |-> "nan"]
ZeroDivision == [t |-> "raise", e |-> "ZeroDivisionError"]
ValueError == [t |-> "raise", e |-> "ValueError"]
TypeError == [t |-> "raise", e |-> "TypeError"]
\* x is an exception on its way up the call stack
IsRaise(x) == "e" \in DOMAIN x
NoCall == [t |-> "nocall"]
Str == [t |-> "str"]

\* services/places.py imported and not called yet
PlacesAtRest ==
    /\ env = FALSE
    /\ cache = [get_place_details |-> <<>>, get_primary_photo_bytes |-> <<>>]
    /\ pc = "idle"
    /\ key = FALSE
    /\ place_id = None
    /\ ref = None
    /\ debug = [k \in {} |-> None]
    /\ sent = <<>>
Bool(b) == [t |-> "bool", b |-> b]
Hours(h) == [t |-> "hours", h |-> h]

RECURSIVE GCD(_, _)
GCD(a, b) == IF b = 0 THEN a ELSE GCD(b, a % b)

Abs(i) == IF i < 0 THEN -i ELSE i

\* the rational n/d (d # 0) in lowest terms with a positive denominator
Num(n, d) ==
    LET s == IF d < 0 THEN -1 ELSE 1
        g == GCD(Abs(n), Abs(d))
    IN [t |-> "num", n |-> (s * n) \div g, d |-> (s * d) \div g]

IsNum(x) == x.t = "num"
Zero == Num(0, 1)
One == Num(1, 1)

RAdd(a, b) == Num(a.n * b.d + b.n * a.d, a.d * b.d)
RSub(a, b) == Num(a.n * b.d - b.n * a.d, a.d * b.d)
RMul(a, b) ==
    LET g1 == GCD(Abs(a.n), b.d)
        g2 == GCD(Abs(b.n), a.d)
    IN Num((a.n \div g1) * (b.n \div g2), (a.d \div g2) * (b.d \div g1))
\* a/b; Python raises ZeroDivisionError when b is 0
RDiv(a, b) ==
    IF b.n = 0 THEN ZeroDivision
    ELSE RMul(a, [t |-> "num", n |-> (IF b.n < 0 THEN -b.d ELSE b.d), d |-> Abs(b.n)])
RLe(a, b) == a.n * b.d <= b.n * a.d
RLt(a, b) == a.n * b.d < b.n * a.d
RMax(a, b) == IF RLt(a, b) THEN b ELSE a
RMin(a, b) == IF RLt(b, a) THEN b ELSE a
RAbs(a) == [t |-> "num", n |-> Abs(a.n), d |-> a.d]

\* Python's `x or d`: d when x is None or 0.0, else x
Or(x, d) == IF x = None \/ x = Zero THEN d ELSE x

-----------------------------------------------------------------------------
(* Normalizers, src/scoring.py lines 5-42 *)

_nz(v, d) == IF v = None \/ v = NaN THEN d ELSE v

\* max(lo, min(hi, x)); an exception raised while computing x passes through,
\* and min() of a number and a text raises TypeError
clamp(x, lo, hi) ==
    IF IsNum(x) THEN RMax(lo, RMin(hi, x)) ELSE IF x = Str THEN TypeError ELSE x
\* clamp with its default bounds lo=0.0, hi=1.0
clampDefault(x) == clamp(x, Zero, One)

\* float(x) and bool(x) of a number, a boolean or a text
float(x) ==
    IF x.t = "bool" THEN (IF x.b THEN One ELSE Zero)
    ELSE IF x = Str THEN ValueError ELSE x
bool(x) == IF x.t = "bool" THEN x.b ELSE x # Zero
\* x/d, an exception raised while computing x passing through
over(x, d) == IF IsRaise(x) THEN x ELSE RDiv(x, d)

Five == Num(5, 1)
Three == Num(3, 1)
Forty == Num(40, 1)
Half == Num(1, 2)
Two == Num(2, 1)

norm_0_5(x) ==
    LET x1 == _nz(x, None)
    IN IF x1 = None THEN None ELSE clampDefault(over(float(x1), Five))

bool_norm(x) ==
    LET x1 == _nz(x, None)
    IN IF x1 = None THEN None ELSE (IF bool(x1) THEN One ELSE Zero)

norm_seating(c) ==
    LET c1 == _nz(c, None)
    IN IF c1 = None THEN None ELSE clampDefault(over(float(c1), Forty))

\* norm_price_index without the inversion
norm_price_index_uninverted(pi) ==
    LET p1 == _nz(pi, None)
    IN IF p1 = None THEN None
       ELSE IF IsRaise(float(p1)) THEN float(p1)
       ELSE clampDefault(RDiv(RSub(float(p1), One), Three))

norm_price_index(pi) ==
    LET p1 == _nz(pi, None)
    IN IF p1 = None THEN None
       ELSE IF IsRaise(float(p1)) THEN float(p1)
       ELSE clampDefault(RSub(One, RDiv(RSub(float(p1), One), Three)))

(* An hours dict maps a day label to an entry.  An entry is                *)
(*   Pair(o, c)   a two-element list [o, c], o and c numbers or None       *)
(*   BadEntry     anything that is not a list of length 2                  *)
Pair(o, c) == [t |-> "pair", o |-> o, c |-> c]
BadEntry == [t |-> "bad"]
Usable(v) == v.t = "pair" /\ v.o # None /\ v.c # None

H24 == Num(24, 1)
H19 == Num(19, 1)
H7_5 == Num(15, 2)

daySpan(v) == IF RLe(v.o, v.c) THEN RSub(v.c, v.o) ELSE RAdd(RSub(H24, v.o), v.c)
\* dayTotal with an unusable entry counted as a day open around the clock
dayTotal_countsUnusable(v) == IF Usable(v) THEN RMax(daySpan(v), Zero) ELSE H24
\* what one loop iteration adds to t (line 27)
dayTotal(v) == IF Usable(v) THEN RMax(daySpan(v), Zero) ELSE Zero
\* dayLate with the late test made on the opening hour instead of the closing hour
dayLate_byOpen(v) ==
    IF Usable(v) /\ RLt(H19, v.o)
    THEN RMax(RSub(v.c, RMax(v.o, H19)), Zero)
    ELSE Zero
\* what one loop iteration adds to l (line 28)
dayLate(v) ==
    IF Usable(v) /\ RLt(H19, v.c)
    THEN RMax(RSub(v.c, RMax(v.o, H19)), Zero)
    ELSE Zero
\* what one loop iteration adds to e (line 38)
dayEarly(v) ==
    IF Usable(v) /\ RLt(v.o, H7_5)
    THEN IF RLt(v.o, v.c)
         THEN RMin(RSub(H7_5, v.o), daySpan(v))
         ELSE RMin(RSub(H7_5, v.o), RAdd(RSub(H24, v.o), v.c))
    ELSE Zero

\* what one loop iteration adds to the accumulator named acc: t, l or e
dayPart(acc, v) ==
    CASE acc = "t" -> dayTotal(v)
      [] acc = "l" -> dayLate(v)
      [] acc = "e" -> dayEarly(v)

\* the accumulator acc after the loop has visited the days ks of h
RECURSIVE SumDays(_, _, _)
SumDays(acc, h, ks) ==
    IF ks = {} THEN Zero
    ELSE LET k == CHOOSE x \in ks : TRUE
         IN RAdd(dayPart(acc, h[k]), SumDays(acc, h, ks \ {k}))

isDict(h) == h.t = "hours"
\* the loop reaches an entry whose open or close hour is a text: the
\* comparison or the subtraction of line 27 raises TypeError
textHour(h) == \E k \in DOMAIN h.h : Usable(h.h[k]) /\ (h.h[k].o = Str \/ h.h[k].c = Str)

norm_hours_late(h) ==
    IF ~isDict(h) \/ DOMAIN h.h = {} THEN None
    ELSE IF textHour(h) THEN TypeError
    ELSE LET t == SumDays("t", h.h, DOMAIN h.h)
             l == SumDays("l", h.h, DOMAIN h.h)
         IN IF RLe(t, Zero) THEN None ELSE clampDefault(RDiv(l, t))

norm_hours_early(h) ==
    IF ~isDict(h) \/ DOMAIN h.h = {} THEN None
    ELSE IF textHour(h) THEN TypeError
    ELSE LET t == SumDays("t", h.h, DOMAIN h.h)
             e == SumDays("e", h.h, DOMAIN h.h)
         IN IF RLe(t, Zero) THEN None ELSE clampDefault(RDiv(e, t))

norm_noise_inverse(n) ==
    LET n1 == norm_0_5(n)
    IN IF n1 = None THEN None ELSE IF IsRaise(n1) THEN n1
       ELSE clampDefault(RSub(One, n1))

\* norm_mid_noise_bonus without the factor 2.0
norm_mid_noise_bonus_halfSlope(n) ==
    LET n1 == norm_0_5(n)
    IN IF n1 = None THEN None ELSE IF IsRaise(n1) THEN n1
       ELSE clampDefault(RSub(One, RAbs(RSub(n1, Half))))

norm_mid_noise_bonus(n) ==
    LET n1 == norm_0_5(n)
    IN IF n1 = None THEN None ELSE IF IsRaise(n1) THEN n1
       ELSE clampDefault(RSub(One, RMul(RAbs(RSub(n1, Half)), Two)))

norm_df_milks(c) ==
    LET c1 == _nz(c, None)
    IN IF c1 = None THEN None ELSE clampDefault(over(float(c1), Three))

-----------------------------------------------------------------------------
(* combine, src/scoring.py lines 43-47 *)

\* a (strength, weight) pair of parts is a tuple <<v, w>>; the pair combine
\* returns is Tuple(blendedStrength, coverage)
Tuple(s, c) == [t |-> "tuple", s |-> s, c |-> c]
positive(w) == RLt(Zero, w)

weightOf(p) == p[2]
product(p) == RMul(p[1], p[2])
declaredWeight(p) == IF positive(p[2]) THEN p[2] ELSE Zero

\* the term one pair adds to the sum named what: tw, num or den
term(what, p) ==
    CASE what = "tw" -> declaredWeight(p)
      [] what = "num" -> product(p)
      [] what = "den" -> weightOf(p)

\* sum(term for p in ps)
RECURSIVE SumSeq(_, _)
SumSeq(what, ps) ==
    IF ps = <<>> THEN Zero ELSE RAdd(term(what, Head(ps)), SumSeq(what, Tail(ps)))

\* pres=[(v,w) for v,w in parts if v is not None and w>0]
pres(ps) == SelectSeq(ps, LAMBDA p : p[1] # None /\ positive(p[2]))
\* tw summed over the present pairs only
tw_presentOnly(ps) == SumSeq("den", pres(ps))
\* tw=sum(w for _,w in parts if w>0)
tw(ps) == SumSeq("tw", ps)

\* blend without its two clamps
blend_noClamp(ps) ==
    LET num == SumSeq("num", pres(ps))
        den == SumSeq("den", pres(ps))
    IN Tuple(RDiv(num, den), RDiv(den, tw(ps)))

\* blend averaging over the whole declared weight, absent strengths counting as 0
blend_overDeclared(ps) ==
    LET num == SumSeq("num", pres(ps))
        den == SumSeq("den", pres(ps))
    IN Tuple(clampDefault(RDiv(num, tw(ps))), clampDefault(RDiv(den, tw(ps))))

\* lines 46-47, reached once the guard of line 45 let the call through
blend(ps) ==
    LET num == SumSeq("num", pres(ps))
        den == SumSeq("den", pres(ps))
        q == RDiv(num, den)
        cq == RDiv(den, tw(ps))
    IN IF q = ZeroDivision \/ cq = ZeroDivision THEN ZeroDivision
       ELSE Tuple(clampDefault(q), clampDefault(cq))

\* combine without the `not pres` half of its guard
combine_noPresGuard(ps) ==
    IF RLe(tw(ps), Zero) THEN Tuple(Zero, Zero)
    ELSE LET num == SumSeq("num", pres(ps))
             den == SumSeq("den", pres(ps))
             q == RDiv(num, den)
         IN IF q = ZeroDivision THEN ZeroDivision
            ELSE Tuple(clampDefault(q), clampDefault(RDiv(den, tw(ps))))

\* a present strength is a text: v*w of line 46 raises TypeError
textStrength(ps) == \E i \in DOMAIN pres(ps) : pres(ps)[i][1] = Str

combine(ps) ==
    IF RLe(tw(ps), Zero) \/ pres(ps) = <<>> THEN Tuple(Zero, Zero)
    ELSE IF textStrength(ps) THEN TypeError
    ELSE blend(ps)

-----------------------------------------------------------------------------
(* VibeResult, _conf and the seven scorers, src/scoring.py lines 48-144 *)

VibeResult(score, coverage, confidence, drivers) ==
    [score |-> score, coverage |-> coverage, confidence |-> confidence,
     drivers |-> drivers]

\* n/100, the way the source writes its weights, defaults and thresholds
P(n) == Num(n, 100)

\* _conf with both thresholds exclusive
_conf_exclusive(c) == IF RLt(P(80), c) THEN "High" ELSE (IF RLt(P(50), c) THEN "Medium" ELSE "Low")
_conf(c) == IF RLe(P(80), c) THEN "High" ELSE (IF RLe(P(50), c) THEN "Medium" ELSE "Low")

\* round(x, 1) for x >= 0: the nearest multiple of 0.1, an exact tie going
\* to the even one
round1(x) ==
    LET p == x.n * 10
        q == x.d
        f == p \div q
        r == p - f * q
    IN IF 2 * r < q THEN Num(f, 10)
       ELSE IF 2 * r > q THEN Num(f + 1, 10)
       ELSE IF f % 2 = 0 THEN Num(f, 10) ELSE Num(f + 1, 10)

\* r.get(k) and r.get(k, dflt)
get(r, k) == IF k \in DOMAIN r THEN r[k] ELSE None
getOr(r, k, dflt) == IF k \in DOMAIN r THEN r[k] ELSE dflt

\* d.append(phrase) under `if cond`
driver(cond, phrase) == IF cond THEN <<phrase>> ELSE <<>>
\* d returned whole
first3_untruncated(d) == d
\* d[:3]
first3(d) == SubSeq(d, 1, IF Len(d) < 3 THEN Len(d) ELSE 3)

\* s,c=combine(ps); s*=(0.9+0.1*c); return VibeResult(round(100*s,1),c,_conf(c),d[:3])
corrected(sc, d) ==
    LET c == sc.c
        s == RMul(sc.s, RAdd(P(90), RMul(P(10), c)))
    IN IF IsRaise(sc) THEN sc
       ELSE VibeResult(round1(RMul(Num(100, 1), s)), c, _conf(c), first3(d))
scored(ps, d) == corrected(combine(ps), d)

\* the exception raised by the first of the statements that computed the
\* strengths of ps, None when none of them raised
RECURSIVE firstRaise(_)
firstRaise(ps) ==
    IF ps = <<>> THEN None
    ELSE IF IsRaise(Head(ps)[1]) THEN Head(ps)[1] ELSE firstRaise(Tail(ps))

\* the parts each scorer hands to combine
work_parts(r) ==
    LET wifi == Or(norm_0_5(get(r, "wifi_score")), P(60))
        outlets == Or(norm_0_5(get(r, "outlets_score")), P(50))
        noise_inv == Or(norm_noise_inverse(get(r, "noise_score")), P(50))
        seating == Or(norm_seating(get(r, "seating_count")), P(40))
        restroom == Or(bool_norm(get(r, "restroom_access")), P(50))
        late == _nz(norm_hours_late(get(r, "hours_json")), P(40))
        clean == Or(norm_0_5(get(r, "cleanliness_score")), P(60))
        parking == Or(norm_0_5(get(r, "parking_score")), P(50))
    IN << <<wifi, P(22)>>, <<outlets, P(18)>>, <<noise_inv, P(15)>>,
          <<seating, P(12)>>, <<restroom, P(10)>>, <<late, P(10)>>,
          <<clean, P(8)>>, <<parking, P(5)>> >>

\* work_friendly appending "open late" ahead of the other three phrases
work_result_lateFirst(ps) ==
    LET wifi == ps[1][1]
        outlets == ps[2][1]
        noise_inv == ps[3][1]
        late == ps[6][1]
    IN IF firstRaise(ps) # None THEN firstRaise(ps) ELSE
       scored(ps,
              driver(RLe(P(50), late), "open late")
              \o driver(RLe(P(70), wifi), "reliable Wi-Fi")
              \o driver(RLe(P(60), outlets), "many outlets")
              \o driver(RLe(P(60), noise_inv), "lower noise"))

\* the combine call, the coverage correction and the drivers of work_friendly,
\* lines 61-67, over the strengths computed before them
work_result(ps) ==
    LET wifi == ps[1][1]
        outlets == ps[2][1]
        noise_inv == ps[3][1]
        late == ps[6][1]
    IN IF firstRaise(ps) # None THEN firstRaise(ps) ELSE
       scored(ps,
              driver(RLe(P(70), wifi), "reliable Wi-Fi")
              \o driver(RLe(P(60), outlets), "many outlets")
              \o driver(RLe(P(60), noise_inv), "lower noise")
              \o driver(RLe(P(50), late), "open late"))

work_friendly(r) == work_result(work_parts(r))

aesthetic_parts(r) ==
    LET aest == Or(norm_0_5(get(r, "aesthetic_score")), P(50))
        light == Or(norm_0_5(getOr(r, "natural_light_score", get(r, "aesthetic_score"))), P(50))
        latte == Or(norm_0_5(get(r, "latte_art_score")), P(40))
        clean == Or(norm_0_5(get(r, "cleanliness_score")), P(60))
        decor == Or(norm_0_5(getOr(r, "unique_decor_score", get(r, "aesthetic_score"))), P(50))
        dessert == Or(norm_0_5(get(r, "dessert_score")), P(50))
    IN << <<aest, P(40)>>, <<light, P(20)>>, <<latte, P(15)>>,
          <<clean, P(10)>>, <<decor, P(10)>>, <<dessert, P(5)>> >>

\* the combine call, the coverage correction and the drivers of aesthetic,
\* lines 75-80, over the strengths computed before them
aesthetic_result(ps) ==
    LET aest == ps[1][1]
        light == ps[2][1]
        latte == ps[3][1]
    IN IF firstRaise(ps) # None THEN firstRaise(ps) ELSE
       scored(ps,
              driver(RLe(P(70), aest), "design-forward space")
              \o driver(RLe(P(65), light), "great natural light")
              \o driver(RLe(P(60), latte), "latte art"))

aesthetic(r) == aesthetic_result(aesthetic_parts(r))

grab_parts(r) ==
    LET parking == Or(norm_0_5(get(r, "parking_score")), P(50))
        early == _nz(norm_hours_early(get(r, "hours_json")), P(40))
        mobile == Or(bool_norm(get(r, "mobile_order")), Zero)
        drive == Or(bool_norm(get(r, "has_drive_through")), Zero)
        peak == clamp(_nz(get(r, "peak_busy_penalty"), P(20)), Zero, One)
        speed == IF IsRaise(peak) THEN peak
                 ELSE clampDefault(RSub(RAdd(RAdd(P(40), RMul(P(30), mobile)),
                                             RMul(P(30), drive)),
                                        RMul(P(20), peak)))
    IN << <<speed, P(35)>>, <<parking, P(25)>>, <<early, P(15)>>,
          <<mobile, P(15)>>, <<drive, P(10)>> >>

\* the combine call, the coverage correction and the drivers of grab_and_go,
\* lines 87-93, over the strengths computed before them
grab_result(ps) ==
    LET \* speed is computed last
        ps0 == <<ps[2], ps[3], ps[4], ps[5], ps[1]>>
        early == ps[3][1]
        mobile == ps[4][1]
        drive == ps[5][1]
    IN IF firstRaise(ps0) # None THEN firstRaise(ps0) ELSE
       scored(ps,
              driver(RLe(P(90), drive), "drive-through")
              \o driver(RLe(P(90), mobile), "mobile order")
              \o driver(RLe(P(60), early), "opens early"))

grab_and_go(r) == grab_result(grab_parts(r))

\* the ambience composite of line 95
blended(ps) == IF firstRaise(ps) # None THEN firstRaise(ps) ELSE combine(ps).s
ambience(r) ==
    blended(<< <<norm_0_5(getOr(r, "lighting_score", get(r, "aesthetic_score"))), P(35)>>,
               <<norm_0_5(getOr(r, "seating_comfort_score", get(r, "aesthetic_score"))), P(35)>>,
               <<norm_mid_noise_bonus(get(r, "noise_score")), P(30)>> >>)

\* date_parts with the weights of the ambience and of the walkables swapped
date_parts_walkHeavy(r, walk) ==
    LET amb == ambience(r)
        dessert == Or(norm_0_5(get(r, "dessert_score")), P(50))
        late == _nz(norm_hours_late(get(r, "hours_json")), P(40))
        aest == Or(norm_0_5(get(r, "aesthetic_score")), P(50))
        walk1 == _nz(walk, _nz(get(r, "nearby_walkables_norm"), None))
        clean == Or(norm_0_5(get(r, "cleanliness_score")), P(60))
    IN << <<amb, P(12)>>, <<dessert, P(20)>>, <<late, P(18)>>,
          <<aest, P(15)>>, <<walk1, P(25)>>, <<clean, P(10)>> >>

date_parts(r, walk) ==
    LET amb == ambience(r)
        dessert == Or(norm_0_5(get(r, "dessert_score")), P(50))
        late == _nz(norm_hours_late(get(r, "hours_json")), P(40))
        aest == Or(norm_0_5(get(r, "aesthetic_score")), P(50))
        walk1 == _nz(walk, _nz(get(r, "nearby_walkables_norm"), None))
        clean == Or(norm_0_5(get(r, "cleanliness_score")), P(60))
    IN << <<amb, P(25)>>, <<dessert, P(20)>>, <<late, P(18)>>,
          <<aest, P(15)>>, <<walk1, P(12)>>, <<clean, P(10)>> >>

\* the combine call, the coverage correction and the drivers of date_night,
\* lines 100-106, over the strengths computed before them
date_result(ps) ==
    LET amb == ps[1][1]
        dessert == ps[2][1]
        late == ps[3][1]
    IN IF firstRaise(ps) # None THEN firstRaise(ps) ELSE
       scored(ps,
              driver(amb # Zero /\ RLe(P(65), amb), "cozy ambience")
              \o driver(RLe(P(65), dessert), "good desserts")
              \o driver(RLe(P(60), late), "open late"))

date_night(r, walk) == date_result(date_parts(r, walk))

\* dietary_parts with the dairy-free weight mistyped as 0.30
dietary_parts_df30(r) ==
    LET gf == Or(bool_norm(get(r, "gf_food")), Zero)
        df == Or(norm_df_milks(get(r, "df_milks")), Zero)
        nut == Or(bool_norm(get(r, "nut_free")), Zero)
        label == Or(norm_0_5(getOr(r, "ingredient_transparency_score", Three)), P(60))
        clean == Or(norm_0_5(get(r, "cleanliness_score")), P(60))
    IN << <<gf, P(40)>>, <<df, P(30)>>, <<nut, P(12)>>,
          <<label, P(10)>>, <<clean, P(10)>> >>

\* dietary_parts with the last strength read from wifi_score
dietary_parts_readsWifi(r) ==
    LET gf == Or(bool_norm(get(r, "gf_food")), Zero)
        df == Or(norm_df_milks(get(r, "df_milks")), Zero)
        nut == Or(bool_norm(get(r, "nut_free")), Zero)
        label == Or(norm_0_5(getOr(r, "ingredient_transparency_score", Three)), P(60))
        clean == Or(norm_0_5(get(r, "wifi_score")), P(60))
    IN << <<gf, P(40)>>, <<df, P(28)>>, <<nut, P(12)>>,
          <<label, P(10)>>, <<clean, P(10)>> >>

dietary_parts(r) ==
    LET gf == Or(bool_norm(get(r, "gf_food")), Zero)
        df == Or(norm_df_milks(get(r, "df_milks")), Zero)
        nut == Or(bool_norm(get(r, "nut_free")), Zero)
        label == Or(norm_0_5(getOr(r, "ingredient_transparency_score", Three)), P(60))
        clean == Or(norm_0_5(get(r, "cleanliness_score")), P(60))
    IN << <<gf, P(40)>>, <<df, P(28)>>, <<nut, P(12)>>,
          <<label, P(10)>>, <<clean, P(10)>> >>

\* the combine call, the coverage correction and the drivers of dietary_friendly,
\* lines 113-118, over the strengths computed before them
dietary_result(ps) ==
    LET gf == ps[1][1]
        df == ps[2][1]
        nut == ps[3][1]
    IN IF firstRaise(ps) # None THEN firstRaise(ps) ELSE
       scored(ps,
              driver(RLe(P(90), gf), "gluten-free options")
              \o driver(RLe(P(67), df), "dairy-free milks")
              \o driver(RLe(P(90), nut), "nut-free choices"))

dietary_friendly(r) == dietary_result(dietary_parts(r))

study_parts(r) ==
    LET outlets == Or(norm_0_5(get(r, "outlets_score")), P(50))
        seating == Or(norm_seating(get(r, "seating_count")), P(40))
        wifi == Or(norm_0_5(get(r, "wifi_score")), P(60))
        price == Or(norm_price_index(get(r, "price_index")), P(50))
        late == _nz(norm_hours_late(get(r, "hours_json")), P(40))
        noise_inv == Or(norm_noise_inverse(get(r, "noise_score")), P(50))
    IN << <<outlets, P(28)>>, <<seating, P(22)>>, <<wifi, P(18)>>,
          <<price, P(12)>>, <<late, P(10)>>, <<noise_inv, P(10)>> >>

\* the combine call, the coverage correction and the drivers of study_spot,
\* lines 126-131, over the strengths computed before them
study_result(ps) ==
    LET outlets == ps[1][1]
        seating == ps[2][1]
        price == ps[4][1]
    IN IF firstRaise(ps) # None THEN firstRaise(ps) ELSE
       scored(ps,
              driver(RLe(P(60), outlets), "outlets available")
              \o driver(RLe(P(60), seating), "ample seating")
              \o driver(RLe(P(60), price), "budget-friendly"))

study_spot(r) == study_result(study_parts(r))

family_parts(r, parks) ==
    LET space == Or(norm_0_5(getOr(r, "space_score", get(r, "seating_comfort_score"))), P(50))
        restroom == Or(bool_norm(get(r, "restroom_access")), P(50))
        parking == Or(norm_0_5(get(r, "parking_score")), P(50))
        noise_tol == Or(norm_mid_noise_bonus(get(r, "noise_score")), P(50))
        kids == Or(norm_0_5(getOr(r, "kids_snacks_score", get(r, "dessert_score"))), P(50))
        parks1 == _nz(parks, _nz(get(r, "nearby_parks_norm"), None))
    IN << <<space, P(30)>>, <<restroom, P(20)>>, <<parking, P(18)>>,
          <<noise_tol, P(15)>>, <<kids, P(10)>>, <<parks1, P(7)>> >>

\* the combine call, the coverage correction and the drivers of family_friendly,
\* lines 139-144, over the strengths computed before them
family_result(ps) ==
    LET space == ps[1][1]
        restroom == ps[2][1]
        parks1 == ps[6][1]
    IN IF firstRaise(ps) # None THEN firstRaise(ps) ELSE
       scored(ps,
              driver(RLe(P(60), space), "roomy layout")
              \o driver(RLe(P(90), restroom), "restroom access")
              \o driver(parks1 # None /\ parks1 # Zero /\ RLe(P(60), parks1), "park nearby"))

family_friendly(r, parks) == family_result(family_parts(r, parks))

-----------------------------------------------------------------------------
(* compute_all_vibes, src/scoring.py lines 145-150 *)

VibeNames ==
    {"Work-Friendly", "Aesthetic", "Grab-and-Go", "Date-Night",
     "Dietary-Friendly", "Study-Spot", "Family-Friendly"}

\* the order in which the dict display of line 150 calls the scorers
VibeOrder ==
    <<"Work-Friendly", "Aesthetic", "Grab-and-Go", "Date-Night",
      "Dietary-Friendly", "Study-Spot", "Family-Friendly">>

\* def nn(n): return clamp(float(_nz(n,0))/5.0)
nn(n) == clampDefault(over(float(_nz(n, Zero)), Five))

\* the dict display of line 150 over the scorers' returns rs, listed in
\* VibeOrder: the mapping from vibe to result, or the exception of the first
\* scorer that raised
display(rs) ==
    IF \E i \in DOMAIN rs : IsRaise(rs[i])
    THEN rs[CHOOSE i \in DOMAIN rs : IsRaise(rs[i]) /\ \A j \in 1..(i - 1) : ~IsRaise(rs[j])]
    ELSE [v \in VibeNames |-> rs[CHOOSE i \in DOMAIN rs : VibeOrder[i] = v]]

\* compute_all_vibes handing the walkables norm to family_friendly as well
compute_all_vibes_walkToFamily(r, nearby_walkables_count, nearby_parks_count) ==
    LET walk == IF nearby_walkables_count # None THEN nn(nearby_walkables_count) ELSE None
        parks == IF nearby_parks_count # None THEN nn(nearby_parks_count) ELSE None
        rs == <<work_friendly(r), aesthetic(r), grab_and_go(r), date_night(r, walk),
                dietary_friendly(r), study_spot(r), family_friendly(r, walk)>>
    IN IF IsRaise(walk) THEN walk
       ELSE IF IsRaise(parks) THEN parks
       ELSE display(rs)

compute_all_vibes(r, nearby_walkables_count, nearby_parks_count) ==
    LET walk == IF nearby_walkables_count # None THEN nn(nearby_walkables_count) ELSE None
        parks == IF nearby_parks_count # None THEN nn(nearby_parks_count) ELSE None
        rs == <<work_friendly(r), aesthetic(r), grab_and_go(r), date_night(r, walk),
                dietary_friendly(r), study_spot(r), family_friendly(r, parks)>>
    IN IF IsRaise(walk) THEN walk
       ELSE IF IsRaise(parks) THEN parks
       ELSE display(rs)

-----------------------------------------------------------------------------
(* The callers' inputs *)

MaxParts == 3
MaxEdits == 1
MaxDays == 3
MaxHalves == 90

Whole(n) == Num(n, 1)

\* strengths and weights a caller may hand to combine: absent, below 0,
\* in range, above 1; non-positive and positive weights
StrengthVals == {None, Num(-1, 2), Zero, Half, Num(3, 2)}
WeightVals == {Num(-1, 10), Zero, Num(1, 10), Num(3, 10)}

Days == {"mon", "tue", "wed", "thu", "fri", "sat", "sun"}

ScoreKeys ==
    {"wifi_score", "outlets_score", "noise_score", "cleanliness_score",
     "parking_score", "aesthetic_score", "natural_light_score",
     "latte_art_score", "unique_decor_score", "dessert_score",
     "lighting_score", "seating_comfort_score",
     "ingredient_transparency_score", "space_score", "kids_snacks_score"}
BoolKeys ==
    {"restroom_access", "mobile_order", "has_drive_through", "gf_food", "nut_free"}
NormKeys == {"nearby_walkables_norm", "nearby_parks_norm"}
Keys ==
    ScoreKeys \cup BoolKeys \cup NormKeys \cup
    {"seating_count", "price_index", "df_milks", "peak_busy_penalty", "hours_json"}

HoursVals ==
    {Hours([d \in {} |-> BadEntry]),
     Hours([d \in {"mon"} |-> Pair(Whole(8), Whole(17))]),
     Hours([d \in {"fri", "sat"} |-> IF d = "fri" THEN Pair(Whole(6), Whole(14))
                                     ELSE Pair(Whole(20), Whole(2))]),
     Hours([d \in {"mon", "tue"} |-> IF d = "mon" THEN BadEntry
                                     ELSE Pair(None, Whole(5))]),
     Hours([d \in {"mon"} |-> Pair(Str, Str)])}

\* the values a record may carry under key k
ValuesOf(k) ==
    IF k \in ScoreKeys THEN {None, Zero, Whole(2), Whole(5), Str}
    ELSE IF k \in BoolKeys THEN {Bool(TRUE), Bool(FALSE)}
    ELSE IF k \in NormKeys THEN {NaN, Whole(-1), Half, Whole(50)}
    ELSE IF k = "seating_count" THEN {Whole(20), Whole(60)}
    ELSE IF k = "price_index" THEN {Whole(1), Whole(4)}
    ELSE IF k = "df_milks" THEN {Whole(1), Whole(3)}
    ELSE IF k = "peak_busy_penalty" THEN {Zero, Whole(3)}
    ELSE HoursVals

\* the proximity counts a caller may pass
CountVals == {Zero, Whole(2), Whole(5), Whole(7)}

EmptyRow == [k \in {} |-> None]

\* a record with only wifi_score populated
WifiOnlyRow == [k \in {"wifi_score"} |-> Whole(4)]

\* a record offering nothing dietary
NoDietRow ==
    [k \in {"gf_food", "df_milks", "nut_free"} |->
        IF k = "df_milks" THEN Zero ELSE Bool(FALSE)]

\* every day open from 19 to 23
LateWeek == Hours([d \in Days |-> Pair(Whole(19), Whole(23))])

\* a record with every Work-Friendly attribute at its best
BestWorkRow ==
    [k \in {"wifi_score", "outlets_score", "noise_score", "seating_count",
            "restroom_access", "cleanliness_score", "parking_score",
            "hours_json"} |->
        CASE k = "noise_score" -> Zero
          [] k = "seating_count" -> Whole(40)
          [] k = "restroom_access" -> Bool(TRUE)
          [] k = "hours_json" -> LateWeek
          [] OTHER -> Whole(5)]

\* a record whose proximity norms lie outside [0,1]
WildNormRow ==
    [k \in NormKeys |-> IF k = "nearby_walkables_norm" THEN Whole(50) ELSE Whole(-1)]

BaseRows == {EmptyRow, WifiOnlyRow, NoDietRow, BestWorkRow, WildNormRow}

-----------------------------------------------------------------------------
(* Specification of combine alone: a caller builds a list of parts and      *)
(* calls combine on it.                                                     *)

InitCombine ==
    /\ PlacesAtRest
    /\ parts = <<>>
    /\ ret = NoCall
    /\ row = EmptyRow
    /\ walkCount = None
    /\ parksCount = None
    /\ results = NoCall
    /\ edits = 0
    /\ base = NoCall
    /\ arg = None
    /\ out = NoCall

AddPart(v, w) ==
    /\ Len(parts) < MaxParts
    /\ parts' = Append(parts, <<v, w>>)
    /\ ret' = NoCall
    /\ UNCHANGED <<placesVars, base, arg, out, row, walkCount, parksCount, results, edits>>

CallCombine ==
    /\ ret = NoCall
    /\ ret' = combine(parts)
    /\ UNCHANGED <<placesVars, base, arg, out, parts, row, walkCount, parksCount, results, edits>>

NextCombine ==
    \/ \E v \in StrengthVals, w \in WeightVals : AddPart(v, w)
    \/ CallCombine

SpecCombine == InitCombine /\ [][NextCombine]_vars

-----------------------------------------------------------------------------
(* Specification of the scoring engine: a caller holds a shop record and    *)
(* proximity counts, may change them, and calls compute_all_vibes.          *)

Init ==
    /\ PlacesAtRest
    /\ parts = <<>>
    /\ ret = NoCall
    /\ row \in BaseRows
    /\ walkCount = None
    /\ parksCount = None
    /\ results = NoCall
    /\ edits = 0
    /\ base = NoCall
    /\ arg = None
    /\ out = NoCall

\* row[k] = v
SetAttr(k, v) ==
    /\ edits < MaxEdits
    /\ row' = [x \in DOMAIN row \cup {k} |-> IF x = k THEN v ELSE row[x]]
    /\ results' = NoCall
    /\ edits' = edits + 1
    /\ UNCHANGED <<placesVars, base, arg, out, parts, ret, walkCount, parksCount>>

\* del row[k]
DelAttr(k) ==
    /\ edits < MaxEdits
    /\ k \in DOMAIN row
    /\ row' = [x \in DOMAIN row \ {k} |-> row[x]]
    /\ results' = NoCall
    /\ edits' = edits + 1
    /\ UNCHANGED <<placesVars, base, arg, out, parts, ret, walkCount, parksCount>>

\* the caller counts the walkable places around the shop
SetWalk(n) ==
    /\ edits < MaxEdits
    /\ walkCount' = n
    /\ results' = NoCall
    /\ edits' = edits + 1
    /\ UNCHANGED <<placesVars, base, arg, out, parts, ret, row, parksCount>>

\* the caller counts the parks around the shop
SetParks(n) ==
    /\ edits < MaxEdits
    /\ parksCount' = n
    /\ results' = NoCall
    /\ edits' = edits + 1
    /\ UNCHANGED <<placesVars, base, arg, out, parts, ret, row, walkCount>>

Score ==
    /\ results = NoCall
    /\ results' = compute_all_vibes(row, walkCount, parksCount)
    /\ UNCHANGED <<placesVars, base, arg, out, parts, ret, row, walkCount, parksCount, edits>>

Next ==
    \/ \E k \in Keys : \E v \in ValuesOf(k) : SetAttr(k, v)
    \/ \E k \in Keys : DelAttr(k)
    \/ \E n \in CountVals : SetWalk(n)
    \/ \E n \in CountVals : SetParks(n)
    \/ Score

Spec == Init /\ [][Next]_vars

-----------------------------------------------------------------------------
(* Claims about the scorers, checked under Spec *)

\* compute_all_vibes was called and returned its mapping
Scored == DOMAIN results = VibeNames
HasAll(r, scenario) == \A k \in DOMAIN scenario : get(r, k) = scenario[k]

\* the true normalized value of each Work-Friendly attribute, None when missing
WorkTrue(r) ==
    << norm_0_5(get(r, "wifi_score")), norm_0_5(get(r, "outlets_score")),
       norm_noise_inverse(get(r, "noise_score")), norm_seating(get(r, "seating_count")),
       bool_norm(get(r, "restroom_access")), norm_hours_late(get(r, "hours_json")),
       norm_0_5(get(r, "cleanliness_score")), norm_0_5(get(r, "parking_score")) >>

\* the true normalized value of each Study-Spot attribute, None when missing
StudyTrue(r) ==
    << norm_0_5(get(r, "outlets_score")), norm_seating(get(r, "seating_count")),
       norm_0_5(get(r, "wifi_score")), norm_price_index(get(r, "price_index")),
       norm_hours_late(get(r, "hours_json")), norm_noise_inverse(get(r, "noise_score")) >>

\* the share of the declared weight whose true value is present
RECURSIVE TrueShare(_, _, _)
TrueShare(ps, true, i) ==
    IF i = 0 THEN Zero
    ELSE RAdd(IF true[i] # None THEN ps[i][2] ELSE Zero, TrueShare(ps, true, i - 1))

(* C1: every strength a scorer passes to combine is the attribute's true   *)
(* normalized value, or absent when the attribute is missing (never the    *)
(* fallback default), so a missing attribute lowers the coverage by its    *)
(* share of the weight.  Stated for Work-Friendly and Study-Spot.          *)
C1_TrueStrengthsReachCombine ==
    Scored =>
        /\ \A i \in 1..8 : work_parts(row)[i][1] = WorkTrue(row)[i]
        /\ \A i \in 1..6 : study_parts(row)[i][1] = StudyTrue(row)[i]
        /\ results["Work-Friendly"].coverage = TrueShare(work_parts(row), WorkTrue(row), 8)
        /\ results["Study-Spot"].coverage = TrueShare(study_parts(row), StudyTrue(row), 6)

(* C2: with only wifi_score=4 populated, Work-Friendly has coverage 0.22,  *)
(* confidence Low and score round(100 * 0.8 * (0.9 + 0.1*0.22), 1) = 73.8. *)
C2_WifiOnlyIsLowConfidence ==
    (Scored /\ row = WifiOnlyRow) =>
        /\ results["Work-Friendly"].coverage = P(22)
        /\ results["Work-Friendly"].confidence = "Low"
        /\ results["Work-Friendly"].score =
               round1(RMul(Whole(100), RMul(P(80), RAdd(P(90), RMul(P(10), P(22))))))

(* C3: with gf_food=false, df_milks=0 and nut_free=false, every other      *)
(* attribute left absent, the Dietary-Friendly score is exactly 0.         *)
C3_NoDietaryOptionsScoreZero ==
    (Scored /\ row = NoDietRow) => results["Dietary-Friendly"].score = Zero

(* C4: with wifi, outlets, cleanliness and parking at 5, noise at 0, 40    *)
(* seats, restroom access and every day open 19-23, Work-Friendly scores   *)
(* at least 95 with coverage 1.0 and confidence High.                      *)
C4_BestWorkShopScoresHigh ==
    (Scored /\ HasAll(row, BestWorkRow)) =>
        /\ RLe(Whole(95), results["Work-Friendly"].score)
        /\ results["Work-Friendly"].coverage = One
        /\ results["Work-Friendly"].confidence = "High"

C4_Witness ==
    /\ Scored
    /\ row = BestWorkRow
    /\ results["Work-Friendly"].score = Whole(100)

(* C5: whenever compute_all_vibes returns, the mapping has exactly the     *)
(* seven vibe names as keys and every VibeResult has score in [0,100],     *)
(* coverage in [0,1], a confidence of High, Medium or Low and at most 3    *)
(* drivers.                                                                *)
C5_VibeResultsWellFormed ==
    Scored =>
        /\ DOMAIN results = VibeNames
        /\ \A v \in VibeNames :
              /\ RLe(Zero, results[v].score) /\ RLe(results[v].score, Whole(100))
              /\ RLe(Zero, results[v].coverage) /\ RLe(results[v].coverage, One)
              /\ results[v].confidence \in {"High", "Medium", "Low"}
              /\ Len(results[v].drivers) <= 3

\* a scored record that meets all four Work-Friendly driver thresholds and
\* a scored record whose walkables norm is far above 1
C5_Witness ==
    /\ Scored
    /\ HasAll(row, BestWorkRow)
    /\ Len(results["Work-Friendly"].drivers) = 3
    /\ get(row, "nearby_walkables_norm") = Whole(50)
    /\ walkCount = None
    /\ results["Date-Night"].score = Whole(100)

-----------------------------------------------------------------------------
(* Claims about combine, checked under SpecCombine *)

Called == ret # NoCall
PresentAt(ps, i) == ps[i][1] # None /\ ps[i][2].n > 0

\* sum of the positive weights of ps[1..i]
RECURSIVE TotalWeight(_, _)
TotalWeight(ps, i) ==
    IF i = 0 THEN Zero
    ELSE RAdd(IF ps[i][2].n > 0 THEN ps[i][2] ELSE Zero, TotalWeight(ps, i - 1))

\* sum of the weights of the present pairs of ps[1..i]
RECURSIVE PresentWeight(_, _)
PresentWeight(ps, i) ==
    IF i = 0 THEN Zero
    ELSE RAdd(IF PresentAt(ps, i) THEN ps[i][2] ELSE Zero, PresentWeight(ps, i - 1))

\* sum of strength*weight over the present pairs of ps[1..i]
RECURSIVE PresentProduct(_, _)
PresentProduct(ps, i) ==
    IF i = 0 THEN Zero
    ELSE RAdd(IF PresentAt(ps, i) THEN RMul(ps[i][1], ps[i][2]) ELSE Zero,
              PresentProduct(ps, i - 1))

SetAbsent(ps, i) == [ps EXCEPT ![i] = <<None, ps[i][2]>>]
Remove(ps, i) == SubSeq(ps, 1, i - 1) \o SubSeq(ps, i + 1, Len(ps))
In01(x) == IsNum(x) /\ RLe(Zero, x) /\ RLe(x, One)

(* C6: for every list of parts, strengths outside [0,1] included, combine  *)
(* returns a blended strength in [0,1] and a coverage in [0,1].            *)
C6_CombineInUnitRange ==
    Called => /\ ret # ZeroDivision
              /\ In01(ret.s)
              /\ In01(ret.c)

\* a strength above 1 and one below 0 were blended
C6_Witness ==
    /\ Called
    /\ \E i, j \in 1..Len(parts) :
          /\ PresentAt(parts, i) /\ RLt(One, parts[i][1])
          /\ PresentAt(parts, j) /\ RLt(parts[j][1], Zero)

(* C7: combine returns exactly (0.0, 0.0), without dividing by zero, when  *)
(* parts is empty, every weight is non-positive, or every pair with a      *)
(* positive weight has an absent strength.                                 *)
C7_DegenerateGivesZeroZero ==
    (Called /\ \A i \in 1..Len(parts) : ~PresentAt(parts, i)) => ret = Tuple(Zero, Zero)

\* the declared weight is positive but every strength under it is absent
C7_Witness ==
    /\ Called
    /\ \A i \in 1..Len(parts) : ~PresentAt(parts, i)
    /\ \E i \in 1..Len(parts) : parts[i][2].n > 0
    /\ \E i \in 1..Len(parts) : parts[i][1] # None

(* C8: coverage is presentWeight/totalWeight, totalWeight summing every    *)
(* positive weight including those of absent strengths; so turning one     *)
(* present strength absent never increases the coverage.                   *)
C8_CoverageIsPresentShare ==
    Called =>
        /\ TotalWeight(parts, Len(parts)).n > 0 =>
              RMul(ret.c, TotalWeight(parts, Len(parts))) = PresentWeight(parts, Len(parts))
        /\ \A i \in 1..Len(parts) :
              parts[i][1] # None => RLe(combine(SetAbsent(parts, i)).c, ret.c)

\* part of the weight is present, part absent, and removing one more
\* present strength lowers the coverage further without emptying it
C8_Witness ==
    /\ Called
    /\ RLt(ret.c, One)
    /\ \E i \in 1..Len(parts) :
          /\ PresentAt(parts, i)
          /\ RLt(combine(SetAbsent(parts, i)).c, ret.c)
          /\ RLt(Zero, combine(SetAbsent(parts, i)).c)

(* C9: the blended strength is the weighted average of the present         *)
(* strengths only, clamped to [0,1]; adding or removing a positive-weight  *)
(* pair with an absent strength leaves it unchanged while a present pair   *)
(* remains.                                                                *)
C9_BlendIgnoresAbsent ==
    (Called /\ \E i \in 1..Len(parts) : PresentAt(parts, i)) =>
        /\ ret.s = RMax(Zero, RMin(One, RDiv(PresentProduct(parts, Len(parts)),
                                             PresentWeight(parts, Len(parts)))))
        /\ \A i \in 1..Len(parts) :
              (parts[i][1] = None /\ parts[i][2].n > 0) =>
                  combine(Remove(parts, i)).s = ret.s
        /\ \A w \in WeightVals :
              w.n > 0 => combine(Append(parts, <<None, w>>)).s = ret.s

\* two different present strengths and an absent one, blended strictly
\* inside (0,1)
C9_Witness ==
    /\ Called
    /\ RLt(Zero, ret.s) /\ RLt(ret.s, One)
    /\ \E i, j, k \in 1..Len(parts) :
          /\ PresentAt(parts, i) /\ PresentAt(parts, j)
          /\ parts[i][1] # parts[j][1]
          /\ parts[k][1] = None /\ parts[k][2].n > 0

-----------------------------------------------------------------------------
(* Specification of a what-if comparison: a caller scores a record, keeps   *)
(* that call as its baseline, changes one of its inputs and scores again,   *)
(* as the What-If tab of the About Ratings page does with row0 and row_mod. *)

\* the attributes a what-if comparison perturbs
WhatIfKeys ==
    {"wifi_score", "outlets_score", "noise_score", "aesthetic_score",
     "seating_count", "gf_food"}

InitWhatIf ==
    /\ PlacesAtRest
    /\ parts = <<>>
    /\ ret = NoCall
    /\ row \in BaseRows
    /\ \E n \in {None, Whole(5)} : walkCount = n /\ parksCount = n
    /\ results = NoCall
    /\ edits = 0
    /\ base = NoCall
    /\ arg = None
    /\ out = NoCall

\* base = compute_all_vibes(row0, ...): the caller keeps the call just made
Keep ==
    /\ base = NoCall
    /\ DOMAIN results = VibeNames
    /\ base' = [row |-> row, walk |-> walkCount, parks |-> parksCount, out |-> results]
    /\ UNCHANGED <<placesVars, parts, ret, row, walkCount, parksCount, results, edits, arg, out>>

NextWhatIf ==
    \/ Score
    \/ Keep
    \/ base # NoCall /\ \E k \in WhatIfKeys : \E v \in ValuesOf(k) : SetAttr(k, v)
    \/ base # NoCall /\ \E k \in WhatIfKeys : DelAttr(k)
    \/ base # NoCall /\ \E n \in CountVals : SetWalk(n)
    \/ base # NoCall /\ \E n \in CountVals : SetParks(n)

SpecWhatIf == InitWhatIf /\ [][NextWhatIf]_vars

\* a baseline is kept and the changed inputs have been scored too
Compared == base # NoCall /\ DOMAIN results = VibeNames
\* records r1 and r2 carry the same keys and values, key k left aside
DiffersOnlyIn(r1, r2, k) ==
    /\ DOMAIN r1 \ {k} = DOMAIN r2 \ {k}
    /\ \A x \in DOMAIN r1 \ {k} : r1[x] = r2[x]
SameCounts == base.walk = walkCount /\ base.parks = parksCount

\* C11: two records that differ only in wifi_score, scored with the same
\* proximity counts, get identical VibeResults for Aesthetic, Grab-and-Go,
\* Date-Night, Dietary-Friendly and Family-Friendly.
C11_WifiMovesOnlyWorkAndStudy ==
    (Compared /\ SameCounts /\ DiffersOnlyIn(base.row, row, "wifi_score"))
        => \A v \in VibeNames \ {"Work-Friendly", "Study-Spot"} :
              results[v] = base.out[v]

\* wifi_score alone was changed, and Work-Friendly and Study-Spot both moved
C11_Witness ==
    /\ Compared /\ SameCounts
    /\ DiffersOnlyIn(base.row, row, "wifi_score")
    /\ results["Work-Friendly"] # base.out["Work-Friendly"]
    /\ results["Study-Spot"] # base.out["Study-Spot"]

-----------------------------------------------------------------------------
(* Claims about error handling, checked under Spec *)

\* the record r with every text value replaced by None
Cleaned(r) == [k \in DOMAIN r |-> IF r[k] = Str THEN None ELSE r[k]]

\* C12: compute_all_vibes raises no exception for any shop record: it returns
\* a full mapping, and a text where a number is expected is treated exactly
\* like an absent attribute.
C12_NoExceptionForAnyRecord ==
    results # NoCall =>
        /\ ~IsRaise(results)
        /\ DOMAIN results = VibeNames
        /\ results = compute_all_vibes(Cleaned(row), walkCount, parksCount)

-----------------------------------------------------------------------------
(* Specification of the hours normalizers alone: a caller builds an hours   *)
(* value day by day and calls norm_hours_late or norm_hours_early on it.    *)
(* The entries are what json.loads yields for a day: a two-element list of  *)
(* numbers or nulls, or something else.                                     *)

DayNames == <<"mon", "tue", "wed", "thu">>

EntryVals ==
    {BadEntry, Pair(None, Whole(5)), Pair(Whole(8), None),
     Pair(Whole(8), Whole(17)), Pair(Whole(19), Whole(23)),
     Pair(Whole(20), Whole(2)), Pair(Whole(18), Whole(2)),
     Pair(Whole(22), Whole(6)), Pair(Whole(5), Whole(5)),
     Pair(Whole(6), Whole(14))}

\* the normalizer named fn applied to x
apply(fn, x) ==
    CASE fn = "norm_hours_late" -> norm_hours_late(x)
      [] fn = "norm_hours_early" -> norm_hours_early(x)
      [] fn = "norm_0_5" -> norm_0_5(x)
      [] fn = "norm_seating" -> norm_seating(x)
      [] fn = "norm_price_index" -> norm_price_index(x)
      [] fn = "norm_df_milks" -> norm_df_milks(x)
      [] fn = "norm_noise_inverse" -> norm_noise_inverse(x)
      [] fn = "norm_mid_noise_bonus" -> norm_mid_noise_bonus(x)

InitHours ==
    /\ PlacesAtRest
    /\ parts = <<>>
    /\ ret = NoCall
    /\ row = EmptyRow
    /\ walkCount = None
    /\ parksCount = None
    /\ results = NoCall
    /\ edits = 0
    /\ base = NoCall
    /\ arg \in {Hours([d \in {} |-> BadEntry]), None, Whole(9)}
    /\ out = NoCall

\* h[day] = v for the next day of the week
AddDay(v) ==
    /\ isDict(arg)
    /\ Cardinality(DOMAIN arg.h) < MaxDays
    /\ LET day == DayNames[Cardinality(DOMAIN arg.h) + 1]
       IN arg' = Hours([d \in DOMAIN arg.h \cup {day} |->
                           IF d = day THEN v ELSE arg.h[d]])
    /\ out' = NoCall
    /\ UNCHANGED <<placesVars, parts, ret, row, walkCount, parksCount, results, edits, base>>

CallNorm(fn) ==
    /\ out = NoCall
    /\ out' = [fn |-> fn, v |-> apply(fn, arg)]
    /\ UNCHANGED <<placesVars, parts, ret, row, walkCount, parksCount, results, edits, base, arg>>

NextHours ==
    \/ \E v \in EntryVals : AddDay(v)
    \/ CallNorm("norm_hours_late")
    \/ CallNorm("norm_hours_early")

SpecHours == InitHours /\ [][NextHours]_vars

\* the hours dict h without its unusable entries
UsableOnly(h) ==
    Hours([d \in {k \in DOMAIN h.h : Usable(h.h[k])} |-> h.h[d]])
\* no entry of h is usable, or every usable one has a span of 0
NoSpan(h) == \A k \in DOMAIN h.h : ~Usable(h.h[k]) \/ h.h[k].o = h.h[k].c

\* C13: the hours normalizers skip an entry that is not a two-element list or
\* has a null endpoint, without error and still counting the other entries;
\* they return None when the value is not a mapping, is empty, or has no
\* usable entry with a span.
C13_UnusableEntriesSkipped ==
    out # NoCall =>
        /\ ~IsRaise(out.v)
        /\ isDict(arg) => out.v = apply(out.fn, UsableOnly(arg))
        /\ (~isDict(arg) \/ NoSpan(arg)) => out.v = None

\* a dict with an unusable and a usable entry, normalized to a number
C13_Witness ==
    /\ out # NoCall /\ isDict(arg)
    /\ \E k \in DOMAIN arg.h : ~Usable(arg.h[k])
    /\ \E k \in DOMAIN arg.h : Usable(arg.h[k])
    /\ IsNum(out.v)

-----------------------------------------------------------------------------
(* Claims about the VibeResult a scorer builds from the pair combine        *)
(* returns, checked under SpecCombine                                       *)

\* the VibeResult lines 61 and 67 build from what combine returned for the
\* parts, no driver appended
Built == corrected(ret, <<>>)
\* confidence is the band coverage lies in
InBand(confidence, coverage) ==
    /\ confidence = "High" <=> RLe(P(80), coverage)
    /\ confidence = "Medium" <=> (RLe(P(50), coverage) /\ RLt(coverage, P(80)))
    /\ confidence = "Low" <=> RLt(coverage, P(50))

\* C14: a VibeResult's confidence is the band of its own coverage: "High"
\* exactly when coverage >= 0.8, "Medium" exactly when 0.5 <= coverage < 0.8,
\* "Low" exactly when coverage < 0.5.
C14_ConfidenceIsBandOfCoverage ==
    (Called /\ ~IsRaise(ret)) => InBand(Built.confidence, Built.coverage)

\* a coverage on the lower edge of the Medium band
C14_Witness ==
    /\ Called /\ ~IsRaise(ret)
    /\ Built.coverage = Half
    /\ Built.confidence = "Medium"

-----------------------------------------------------------------------------
(* The weight table of the About Ratings page,                              *)
(* src/pages/3_About_Ratings.py lines 20-77, each vibe's attributes in the  *)
(* order the dict lists them                                                *)

VIBE_WEIGHTS ==
    [v \in VibeNames |->
        CASE v = "Work-Friendly" ->
                << <<"Wi-Fi quality", Num(22, 100)>>,
                   <<"Outlets availability", Num(18, 100)>>,
                   <<"Lower noise", Num(15, 100)>>,
                   <<"Seating capacity", Num(12, 100)>>,
                   <<"Restroom access", Num(10, 100)>>,
                   <<"Open late", Num(10, 100)>>,
                   <<"Cleanliness", Num(8, 100)>>,
                   <<"Parking", Num(5, 100)>> >>
          [] v = "Aesthetic" ->
                << <<"Aesthetic score", Num(40, 100)>>,
                   <<"Natural light", Num(20, 100)>>,
                   <<"Latte art / presentation", Num(15, 100)>>,
                   <<"Cleanliness", Num(10, 100)>>,
                   <<"Unique decor", Num(10, 100)>>,
                   <<"Desserts", Num(5, 100)>> >>
          [] v = "Grab-and-Go" ->
                << <<"Speed (mobile/drive-thru/peak)", Num(35, 100)>>,
                   <<"Parking", Num(25, 100)>>,
                   <<"Opens early", Num(15, 100)>>,
                   <<"Mobile order", Num(15, 100)>>,
                   <<"Drive-through", Num(10, 100)>> >>
          [] v = "Date-Night" ->
                << <<"Ambience (lighting/comfort/mid-noise)", Num(25, 100)>>,
                   <<"Desserts", Num(20, 100)>>,
                   <<"Open late", Num(18, 100)>>,
                   <<"Aesthetic score", Num(15, 100)>>,
                   <<"Walkable things nearby", Num(12, 100)>>,
                   <<"Cleanliness", Num(10, 100)>> >>
          [] v = "Dietary-Friendly" ->
                << <<"Gluten-free options", Num(40, 100)>>,
                   <<"Dairy-free milks", Num(28, 100)>>,
                   <<"Nut-free choices", Num(12, 100)>>,
                   <<"Ingredient transparency", Num(10, 100)>>,
                   <<"Cleanliness", Num(10, 100)>> >>
          [] v = "Study-Spot" ->
                << <<"Outlets availability", Num(28, 100)>>,
                   <<"Seating capacity", Num(22, 100)>>,
                   <<"Wi-Fi quality", Num(18, 100)>>,
                   <<"Budget-friendliness", Num(12, 100)>>,
                   <<"Open late", Num(10, 100)>>,
                   <<"Lower noise", Num(10, 100)>> >>
          [] v = "Family-Friendly" ->
                << <<"Roomy layout / space", Num(30, 100)>>,
                   <<"Restroom access", Num(20, 100)>>,
                   <<"Parking", Num(18, 100)>>,
                   <<"Mid-noise tolerance", Num(15, 100)>>,
                   <<"Kids snacks / treats", Num(10, 100)>>,
                   <<"Park nearby", Num(7, 100)>> >>]

\* the list the scorer of vibe v hands to combine for record r
partsOf(v, r, walk, parks) ==
    CASE v = "Work-Friendly" -> work_parts(r)
      [] v = "Aesthetic" -> aesthetic_parts(r)
      [] v = "Grab-and-Go" -> grab_parts(r)
      [] v = "Date-Night" -> date_parts(r, walk)
      [] v = "Dietary-Friendly" -> dietary_parts(r)
      [] v = "Study-Spot" -> study_parts(r)
      [] v = "Family-Friendly" -> family_parts(r, parks)

\* the second components of a list of pairs
weightsOf(ps) == [i \in DOMAIN ps |-> ps[i][2]]
\* the weights vibe v's scorer writes in its combine call, in the state's inputs
ScorerWeights(v) == weightsOf(partsOf(v, row, walkCount, parksCount))

\* C15: for each of the seven vibes the weights written in the scorer's
\* combine call are non-negative, sum to exactly 1, and equal the VIBE_WEIGHTS
\* table of the About Ratings page attribute for attribute, whatever the
\* callers have done.
C15_WeightsFixedAndNormalized ==
    \A v \in VibeNames :
        /\ \A i \in DOMAIN ScorerWeights(v) : RLe(Zero, ScorerWeights(v)[i])
        /\ SumSeq("den", partsOf(v, row, walkCount, parksCount)) = One
        /\ ScorerWeights(v) = weightsOf(VIBE_WEIGHTS[v])

\* the record was changed and scored again, and the weights still stand
C15_Witness ==
    /\ Compared /\ row # base.row
    /\ \A v \in VibeNames : ScorerWeights(v) = weightsOf(VIBE_WEIGHTS[v])

-----------------------------------------------------------------------------
(* Claims about the proximity counts, checked under SpecWhatIf *)

\* two values of a count that are equal or both 5 or more
Saturated(a, b) == a = b \/ (IsNum(a) /\ IsNum(b) /\ RLe(Five, a) /\ RLe(Five, b))

\* C16: for a fixed shop record, changing nearby_walkables_count alone changes
\* no VibeResult other than Date-Night's, changing nearby_parks_count alone
\* changes none other than Family-Friendly's, and any count of 5 or more gives
\* the same results as a count of 5.
C16_CountsReachOneVibeEach ==
    (Compared /\ base.row = row) =>
        /\ base.parks = parksCount =>
              \A v \in VibeNames \ {"Date-Night"} : results[v] = base.out[v]
        /\ base.walk = walkCount =>
              \A v \in VibeNames \ {"Family-Friendly"} : results[v] = base.out[v]
        /\ (Saturated(base.walk, walkCount) /\ Saturated(base.parks, parksCount)) =>
              results = base.out

\* the walkables count alone was changed and Date-Night moved
C16_Witness ==
    /\ Compared /\ base.row = row
    /\ base.parks = parksCount
    /\ base.walk # walkCount
    /\ results["Date-Night"] # base.out["Date-Night"]

-----------------------------------------------------------------------------
(* Specification of the scalar normalizers alone: a caller holds a raw      *)
(* attribute value and calls one normalizer on it.                          *)

\* the numbers -2.0, -1.5, ..., MaxHalves/2
NumArgs == {Num(k, 2) : k \in -4..MaxHalves}

ScalarNorms ==
    {"norm_0_5", "norm_seating", "norm_price_index", "norm_df_milks",
     "norm_noise_inverse", "norm_mid_noise_bonus"}

InitNorm ==
    /\ PlacesAtRest
    /\ parts = <<>>
    /\ ret = NoCall
    /\ row = EmptyRow
    /\ walkCount = None
    /\ parksCount = None
    /\ results = NoCall
    /\ edits = 0
    /\ base = NoCall
    /\ arg \in NumArgs \cup {None, NaN}
    /\ out = NoCall

NextNorm == \E fn \in ScalarNorms : CallNorm(fn)

SpecNorm == InitNorm /\ [][NextNorm]_vars

NonDecreasing == {"norm_0_5", "norm_seating", "norm_df_milks"}

\* C17: over all numeric inputs norm_0_5, norm_seating and norm_df_milks are
\* non-decreasing and norm_price_index is non-increasing in their argument,
\* every returned value lies in [0,1], and an absent input returns None.
C17_NormalizersMonotoneInUnitRange ==
    (out # NoCall /\ out.fn \in NonDecreasing \cup {"norm_price_index"}) =>
        /\ ~IsNum(arg) => out.v = None
        /\ IsNum(arg) =>
              /\ In01(out.v)
              /\ \A y \in NumArgs :
                    RLe(arg, y) =>
                        IF out.fn \in NonDecreasing
                        THEN RLe(out.v, apply(out.fn, y))
                        ELSE RLe(apply(out.fn, y), out.v)

\* a price index strictly inside its range, normalized strictly inside [0,1]
C17_Witness ==
    /\ out # NoCall /\ out.fn = "norm_price_index"
    /\ arg = Num(5, 2)
    /\ out.v = Half

\* a number lies in [0,5]
InScale(x) == RLe(Zero, x) /\ RLe(x, Five)
\* y lies at least as far from 2.5 as x, on the same side
FartherFromMid(x, y) ==
    \/ RLe(Num(5, 2), x) /\ RLe(x, y)
    \/ RLe(y, x) /\ RLe(x, Num(5, 2))

\* C18: norm_mid_noise_bonus(noise) is 1.0 exactly when norm_0_5(noise) is
\* 0.5, that is at noise 2.5; it is strictly smaller for every other noise in
\* [0,5], decreases as noise moves away from 2.5 in either direction, and is
\* 0 at noise 0 and at noise 5.
C18_MidNoisePeaksAtMiddle ==
    (out # NoCall /\ out.fn = "norm_mid_noise_bonus" /\ IsNum(arg)) =>
        /\ out.v = One <=> norm_0_5(arg) = Half
        /\ norm_0_5(arg) = Half <=> arg = Num(5, 2)
        /\ (InScale(arg) /\ arg # Num(5, 2)) => RLt(out.v, One)
        /\ \A y \in NumArgs :
              FartherFromMid(arg, y) =>
                  /\ RLe(apply(out.fn, y), out.v)
                  /\ (InScale(y) /\ y # arg) => RLt(apply(out.fn, y), out.v)
        /\ (arg = Zero \/ arg = Five) => out.v = Zero

\* the bonus at the middle of the scale
C18_Witness ==
    /\ out # NoCall /\ out.fn = "norm_mid_noise_bonus"
    /\ arg = Num(5, 2)
    /\ out.v = One

-----------------------------------------------------------------------------
(* Claims about the late and early windows, checked under SpecHours *)

\* the days of hours dict h the loop counts
UsableDays(h) == {k \in DOMAIN h.h : Usable(h.h[k])}

\* the hours of usable day v's open span that lie after 19.0, the hours past
\* midnight of a wraparound day included
LateOverlap(v) ==
    IF RLe(v.o, v.c) THEN RMax(RSub(v.c, RMax(v.o, H19)), Zero)
    ELSE RAdd(RSub(H24, RMax(v.o, H19)), v.c)

\* C19: norm_hours_late returns L/T where, for every usable day, wraparound
\* days included, L counts the part of the day's open span that lies after
\* 19.0: an hours map in which every day is [20, 2] yields 1.0, and a day
\* [18, 2] contributes 7 of its 8 span hours.
C19_LateWindowCountsWraparound ==
    (out # NoCall /\ out.fn = "norm_hours_late" /\ isDict(arg)) =>
        /\ \A k \in UsableDays(arg) : dayLate(arg.h[k]) = LateOverlap(arg.h[k])
        /\ (DOMAIN arg.h # {} /\ \A k \in DOMAIN arg.h : arg.h[k] = Pair(Whole(20), Whole(2)))
              => out.v = One

\* the hours of usable day v's open span that lie before 7.5, the hours past
\* midnight of a wraparound day included
EarlyOverlap(v) ==
    IF RLe(v.o, v.c) THEN RMax(RSub(RMin(v.c, H7_5), v.o), Zero)
    ELSE RAdd(RMax(RSub(H7_5, v.o), Zero), RMin(v.c, H7_5))

\* C20: in norm_hours_early each day's early contribution is the overlap of
\* the day's open span (wraparound-aware) with the window ending at 7.5: it
\* never exceeds the day's span, a day with open = close contributes 0, the
\* accumulated E never exceeds the accumulated T, and the early hours after
\* midnight of a wraparound day such as [22, 6] are counted.
C20_EarlyWindowIsOverlap ==
    (out # NoCall /\ out.fn = "norm_hours_early" /\ isDict(arg)) =>
        /\ \A k \in UsableDays(arg) :
              /\ dayEarly(arg.h[k]) = EarlyOverlap(arg.h[k])
              /\ RLe(dayEarly(arg.h[k]), dayTotal(arg.h[k]))
              /\ arg.h[k].o = arg.h[k].c => dayEarly(arg.h[k]) = Zero
        /\ RLe(SumDays("e", arg.h, DOMAIN arg.h), SumDays("t", arg.h, DOMAIN arg.h))

-----------------------------------------------------------------------------
(* best_vibes and narrative_one_liner (scoring.py lines 151-158).  A results
   mapping is the sequence of its items, <<vibe, VibeResult>>, in insertion
   order; the one-liner is the sequence of its sentences, which line 158
   joins with single spaces. *)

MaxResults == 3

Text(s) == [t |-> "text", s |-> s]
List(items) == [t |-> "list", items |-> items]
IndexError == [t |-> "raise", e |-> "IndexError"]

\* the truth value Python's `if x` and `x and y` give a value
truthy(x) == x \notin {None, Zero, Text(""), List(<<>>)}

\* s[:k] for k >= 0
Take(s, k) == SubSeq(s, 1, IF k < Len(s) THEN k ELSE Len(s))

\* results.items() of a mapping built by the dict display of line 150
items(rs) == [i \in 1..Len(VibeOrder) |-> <<VibeOrder[i], rs[VibeOrder[i]]>>]

\* place putting an item in front of the items that tie with it
RECURSIVE place_beforeTies(_, _)
place_beforeTies(kv, done) ==
    IF done = <<>> \/ RLe(Head(done)[2].score, kv[2].score) THEN <<kv>> \o done
    ELSE <<Head(done)>> \o place_beforeTies(kv, Tail(done))

\* one step of sorted(..., key=score, reverse=True): the item goes behind
\* every item already placed whose score is at least its own, so that items
\* with equal scores keep the order they came in (the sort is stable)
RECURSIVE place(_, _)
place(kv, done) ==
    IF done = <<>> \/ RLt(Head(done)[2].score, kv[2].score) THEN <<kv>> \o done
    ELSE <<Head(done)>> \o place(kv, Tail(done))

RECURSIVE sorted(_)
sorted(its) ==
    IF its = <<>> THEN <<>>
    ELSE place(its[Len(its)], sorted(SubSeq(its, 1, Len(its) - 1)))

best_vibes(its, top_k) == Take(sorted(its), top_k)

joined(drivers) == IF drivers # <<>> THEN drivers ELSE <<"solid fundamentals">>

strongSentence(shop_name, vibe, vr) ==
    <<[s |-> "is strong for", shop |-> shop_name, vibe |-> vibe,
       thanks |-> joined(vr.drivers)]>>

walkSentence(walk_time_min, poi_names) ==
    IF truthy(walk_time_min) /\ truthy(poi_names)
    THEN <<[s |-> "walk to", min |-> walk_time_min, pois |-> Take(poi_names.items, 2)]>>
    ELSE <<>>

\* the late sentence as written without the test on the drivers
lateSentence_always(vr, late_days_str) ==
    IF truthy(late_days_str)
    THEN <<[s |-> "Open late", days |-> late_days_str]>>
    ELSE <<>>

lateSentence(vr, late_days_str) ==
    IF truthy(late_days_str) /\ ~(\E i \in DOMAIN vr.drivers : vr.drivers[i] = "open late")
    THEN <<[s |-> "Open late", days |-> late_days_str]>>
    ELSE <<>>

confidenceSentence(vr) == <<[s |-> "Data confidence", confidence |-> vr.confidence]>>

bits(shop_name, top, walk_time_min, poi_names, late_days_str) ==
    strongSentence(shop_name, top[1], top[2])
    \o walkSentence(walk_time_min, poi_names)
    \o lateSentence(top[2], late_days_str)
    \o confidenceSentence(top[2])

narrative_one_liner(shop_name, its, walk_time_min, poi_names, late_days_str) ==
    IF its = <<>> THEN IndexError
    ELSE bits(shop_name, best_vibes(its, 1)[1], walk_time_min, poi_names, late_days_str)

\* the vibes and results the mappings of this specification are built from:
\* two scores, so that ties happen, with and without "open late"
SomeVibes == {"Work-Friendly", "Aesthetic", "Date-Night"}
SomeResults ==
    {VibeResult(s, c[1], c[2], c[3]) :
        s \in {Whole(40), Whole(70)},
        c \in {<<One, "High", <<"reliable Wi-Fi", "open late">>>>,
               <<P(60), "Medium", <<>>>>}}
WalkVals == {None, Zero, Whole(5), Whole(7)}
PoiVals == {None, List(<<>>), List(<<"Riverside Park">>),
            List(<<"Riverside Park", "City Museum", "Old Mill">>)}
LateVals == {None, Text(""), Text("Fri-Sat")}

InitNarrative ==
    /\ PlacesAtRest
    /\ parts = <<>>
    /\ ret = NoCall
    /\ row = EmptyRow
    /\ walkCount = None
    /\ parksCount = None
    /\ results = NoCall
    /\ edits = 0
    /\ base = NoCall
    /\ arg = <<>>
    /\ out = NoCall

\* results[vibe] = vr for a vibe the mapping does not hold yet
AddResult(vibe, vr) ==
    /\ Len(arg) < MaxResults
    /\ \A i \in DOMAIN arg : arg[i][1] # vibe
    /\ arg' = Append(arg, <<vibe, vr>>)
    /\ out' = NoCall
    /\ UNCHANGED <<placesVars, parts, ret, row, walkCount, parksCount, results, edits, base>>

\* results = compute_all_vibes(row) (app.py line 229)
ScoreRow(r) ==
    /\ arg = <<>>
    /\ ~IsRaise(compute_all_vibes(r, None, None))
    /\ arg' = items(compute_all_vibes(r, None, None))
    /\ out' = NoCall
    /\ UNCHANGED <<placesVars, parts, ret, row, walkCount, parksCount, results, edits, base>>

CallBest(top_k) ==
    /\ out' = [fn |-> "best_vibes", top_k |-> top_k, v |-> best_vibes(arg, top_k)]
    /\ UNCHANGED <<placesVars, parts, ret, row, walkCount, parksCount, results, edits, base, arg>>

CallNarrative(walk_time_min, poi_names, late_days_str) ==
    /\ out' = [fn |-> "narrative_one_liner", walk_time_min |-> walk_time_min,
               poi_names |-> poi_names, late_days_str |-> late_days_str,
               v |-> narrative_one_liner("Cafe", arg, walk_time_min, poi_names,
                                         late_days_str)]
    /\ UNCHANGED <<placesVars, parts, ret, row, walkCount, parksCount, results, edits, base, arg>>

NextNarrative ==
    \/ \E vibe \in SomeVibes, vr \in SomeResults : AddResult(vibe, vr)
    \/ \E r \in BaseRows : ScoreRow(r)
    \/ \E k \in {1, 2} : CallBest(k)
    \/ \E w \in WalkVals, p \in PoiVals, l \in LateVals : CallNarrative(w, p, l)

SpecNarrative == InitNarrative /\ [][NextNarrative]_vars

\* the position in the mapping of the first item whose score no item exceeds
FirstMax(its) ==
    CHOOSE j \in DOMAIN its :
        /\ \A i \in DOMAIN its : RLe(its[i][2].score, its[j][2].score)
        /\ \A i \in 1..(j - 1) : its[i][2].score # its[j][2].score

BestCalled == out # NoCall /\ out.fn = "best_vibes" /\ arg # <<>>
Narrated == out # NoCall /\ out.fn = "narrative_one_liner" /\ arg # <<>>

\* C21: best_vibes and narrative_one_liner select a vibe whose score is
\* maximal in the results mapping, and of several vibes sharing the maximal
\* score the one that comes first in the mapping's insertion order wins; for
\* the output of compute_all_vibes that order is VibeOrder.
C21_TopIsFirstMaximal ==
    /\ BestCalled => out.v[1] = arg[FirstMax(arg)]
    /\ Narrated => out.v[1].vibe = arg[FirstMax(arg)][1]
    /\ (arg # <<>> /\ Len(arg) = Len(VibeOrder)) =>
           \A i \in DOMAIN arg : arg[i][1] = VibeOrder[i]

\* a mapping of three vibes whose last two tie at the maximum, and the
\* second one was returned
C21_Witness ==
    /\ BestCalled
    /\ Len(arg) = 3
    /\ arg[2][2].score = arg[3][2].score
    /\ RLt(arg[1][2].score, arg[2][2].score)
    /\ out.v[1] = arg[2]

-----------------------------------------------------------------------------
(* Claims about the drivers, checked under Spec *)

\* the `if strength>=threshold: d.append(phrase)` lines of each scorer in the
\* order they are written: phrase, position of the strength among the parts,
\* threshold in hundredths
DriverTable ==
    [v \in VibeNames |->
        CASE v = "Work-Friendly" ->
                << <<"reliable Wi-Fi", 1, 70>>, <<"many outlets", 2, 60>>,
                   <<"lower noise", 3, 60>>, <<"open late", 6, 50>> >>
          [] v = "Aesthetic" ->
                << <<"design-forward space", 1, 70>>, <<"great natural light", 2, 65>>,
                   <<"latte art", 3, 60>> >>
          [] v = "Grab-and-Go" ->
                << <<"drive-through", 5, 90>>, <<"mobile order", 4, 90>>,
                   <<"opens early", 3, 60>> >>
          [] v = "Date-Night" ->
                << <<"cozy ambience", 1, 65>>, <<"good desserts", 2, 65>>,
                   <<"open late", 3, 60>> >>
          [] v = "Dietary-Friendly" ->
                << <<"gluten-free options", 1, 90>>, <<"dairy-free milks", 2, 67>>,
                   <<"nut-free choices", 3, 90>> >>
          [] v = "Study-Spot" ->
                << <<"outlets available", 1, 60>>, <<"ample seating", 2, 60>>,
                   <<"budget-friendly", 4, 60>> >>
          [] v = "Family-Friendly" ->
                << <<"roomy layout", 1, 60>>, <<"restroom access", 2, 90>>,
                   <<"park nearby", 6, 60>> >>]

\* the norm compute_all_vibes makes of a proximity count
normOf(count) == IF count # None THEN nn(count) ELSE None

\* the parts vibe v's scorer hands to combine in the state's inputs
StateParts(v) == partsOf(v, row, normOf(walkCount), normOf(parksCount))

\* strength x is there and at least n/100
Meets(x, n) == IsNum(x) /\ RLe(P(n), x)

\* the phrases of table tab whose strength among ps meets its threshold, in
\* the table's order
RECURSIVE met(_, _)
met(tab, ps) ==
    IF tab = <<>> THEN <<>>
    ELSE driver(Meets(ps[Head(tab)[2]][1], Head(tab)[3]), Head(tab)[1])
         \o met(Tail(tab), ps)

\* C22: for every scorer the drivers list holds exactly the phrases whose
\* strength meets its fixed threshold, in the vibe's fixed priority order,
\* cut to the first 3; Work-Friendly's order is Wi-Fi, outlets, lower noise,
\* open late, so that with all four thresholds met "open late" is dropped.
C22_DriversThresholdedInOrder ==
    Scored =>
        /\ \A v \in VibeNames :
              results[v].drivers = Take(met(DriverTable[v], StateParts(v)), 3)
        /\ Len(met(DriverTable["Work-Friendly"], StateParts("Work-Friendly"))) = 4
              => results["Work-Friendly"].drivers =
                     <<"reliable Wi-Fi", "many outlets", "lower noise">>

\* a scored record that meets all four Work-Friendly thresholds, its late
\* strength included, and whose drivers leave "open late" out
C22_Witness ==
    /\ Scored
    /\ Meets(StateParts("Work-Friendly")[6][1], 50)
    /\ Len(met(DriverTable["Work-Friendly"], StateParts("Work-Friendly"))) = 4
    /\ results["Work-Friendly"].drivers = <<"reliable Wi-Fi", "many outlets", "lower noise">>
    /\ results["Date-Night"].drivers = <<"open late">>

\* the item narrative_one_liner builds its sentences from
Top == arg[FirstMax(arg)]
Says(sentence) == \E i \in DOMAIN out.v : out.v[i] = sentence
LateSaid == Says([s |-> "Open late", days |-> out.late_days_str])
WalkSaid ==
    \E i \in DOMAIN out.v : out.v[i].s = "walk to" /\ out.v[i].min = out.walk_time_min
OpenLateDrives == \E i \in DOMAIN Top[2].drivers : Top[2].drivers[i] = "open late"
NamesTopAndEndsWithConfidence ==
    /\ out.v[1].shop = "Cafe" /\ out.v[1].vibe = Top[1]
    /\ out.v[Len(out.v)] = [s |-> "Data confidence", confidence |-> Top[2].confidence]

\* C23: for every non-empty results mapping the one-liner names the top vibe,
\* ends with the sentence "Data confidence: <top vibe's confidence>.", holds
\* the "Open late <days>." sentence exactly when late_days_str is given and
\* "open late" is not among the top vibe's drivers, and holds the walk-time
\* sentence exactly when both walk_time_min and poi_names are given and not
\* empty.
C23_NarrativeSentences ==
    Narrated =>
        /\ NamesTopAndEndsWithConfidence
        /\ LateSaid <=> (out.late_days_str # None /\ ~OpenLateDrives)
        /\ WalkSaid <=> (out.walk_time_min # None /\ out.poi_names \notin {None, List(<<>>)})

\* C23 as the code has it: the "Open late <days>." sentence is there exactly
\* when late_days_str is a string other than "" and "open late" is not among
\* the top vibe's drivers, the walk-time sentence exactly when walk_time_min
\* is a number other than 0 and poi_names a list with at least one name; the
\* top vibe is named and the confidence sentence comes last in every case.
C23_NarrativeSentencesTruthy ==
    Narrated =>
        /\ NamesTopAndEndsWithConfidence
        /\ LateSaid <=> (out.late_days_str \notin {None, Text("")} /\ ~OpenLateDrives)
        /\ WalkSaid <=> (out.walk_time_min \notin {None, Zero}
                         /\ out.poi_names \notin {None, List(<<>>)})

\* a one-liner of all four sentences: the top vibe has no drivers, the late
\* days and the walk time are given, and of three places two are named
C23_Witness ==
    /\ Narrated
    /\ Top[2].drivers = <<>>
    /\ out.late_days_str = Text("Fri-Sat")
    /\ out.poi_names = List(<<"Riverside Park", "City Museum", "Old Mill">>)
    /\ out.v = <<[s |-> "is strong for", shop |-> "Cafe", vibe |-> Top[1],
                  thanks |-> <<"solid fundamentals">>],
                 [s |-> "walk to", min |-> Whole(5),
                  pois |-> <<"Riverside Park", "City Museum">>],
                 [s |-> "Open late", days |-> Text("Fri-Sat")],
                 [s |-> "Data confidence", confidence |-> Top[2].confidence]>>

-----------------------------------------------------------------------------
(* attr_strengths of the About Ratings page
   (src/pages/3_About_Ratings.py lines 82-176) and the page run that calls it *)

\* max(0.0, min(1.0, float(x))): min(1.0, nan) is 1.0, because nan < 1.0 is
\* false, and float() of a text raises
clamp01(x) ==
    IF x = NaN THEN One
    ELSE IF IsRaise(float(x)) THEN float(x)
    ELSE RMax(Zero, RMin(One, float(x)))

\* clamp01(float(n)/float(cap)) with cap=5, any exception giving None
norm_nearby(n) ==
    IF n = None \/ n = Str THEN None
    ELSE IF n = NaN THEN One
    ELSE clamp01(RDiv(float(n), Five))

\* norm_hours_late(h) if isinstance(h, dict) else 0.4, and the same for early
lateIfDict(h) == IF isDict(h) THEN norm_hours_late(h) ELSE P(40)
earlyIfDict(h) == IF isDict(h) THEN norm_hours_early(h) ELSE P(40)

\* clamp01(0.4 + 0.3*mobile + 0.3*drive - 0.2*peak_penalty), peak_penalty = 0.2
pageSpeed(mobile, drive) ==
    clamp01(RSub(RAdd(RAdd(P(40), RMul(P(30), mobile)), RMul(P(30), drive)),
                 RMul(P(20), P(20))))

\* a*0.35 + b*0.35 + c*0.30, the operands computed left to right
pageAmb(a, b, c) ==
    IF IsRaise(a) THEN a
    ELSE IF IsRaise(b) THEN b
    ELSE IF IsRaise(c) THEN c
    ELSE RAdd(RAdd(RMul(a, P(35)), RMul(b, P(35))), RMul(c, P(30)))

\* 0.0 if df_milks is None else clamp01(float(df_milks)/3.0)
pageDf(c) ==
    IF c = None THEN Zero
    ELSE IF c = NaN THEN One
    ELSE IF IsRaise(float(c)) THEN float(c)
    ELSE clamp01(RDiv(float(c), Three))

\* the values of the dict s, in the order of its keys
pageValues(vibe_key, r, walk_norm, parks_norm) ==
    CASE vibe_key = "Work-Friendly" ->
            <<Or(norm_0_5(get(r, "wifi_score")), P(60)),
              Or(norm_0_5(get(r, "outlets_score")), P(50)),
              Or(norm_noise_inverse(get(r, "noise_score")), P(50)),
              Or(norm_seating(get(r, "seating_count")), P(40)),
              Or(bool_norm(get(r, "restroom_access")), P(50)),
              lateIfDict(get(r, "hours_json")),
              Or(norm_0_5(get(r, "cleanliness_score")), P(60)),
              Or(norm_0_5(get(r, "parking_score")), P(50))>>
      [] vibe_key = "Aesthetic" ->
            <<Or(norm_0_5(get(r, "aesthetic_score")), P(50)),
              Or(norm_0_5(getOr(r, "natural_light_score", get(r, "aesthetic_score"))), P(50)),
              Or(norm_0_5(get(r, "latte_art_score")), P(40)),
              Or(norm_0_5(get(r, "cleanliness_score")), P(60)),
              Or(norm_0_5(getOr(r, "unique_decor_score", get(r, "aesthetic_score"))), P(50)),
              Or(norm_0_5(get(r, "dessert_score")), P(50))>>
      [] vibe_key = "Grab-and-Go" ->
            <<pageSpeed(Or(bool_norm(get(r, "mobile_order")), Zero),
                        Or(bool_norm(get(r, "has_drive_through")), Zero)),
              Or(norm_0_5(get(r, "parking_score")), P(50)),
              earlyIfDict(get(r, "hours_json")),
              Or(bool_norm(get(r, "mobile_order")), Zero),
              Or(bool_norm(get(r, "has_drive_through")), Zero)>>
      [] vibe_key = "Date-Night" ->
            <<pageAmb(Or(norm_0_5(getOr(r, "lighting_score", get(r, "aesthetic_score"))), P(50)),
                      Or(norm_0_5(getOr(r, "seating_comfort_score", get(r, "aesthetic_score"))), P(50)),
                      Or(norm_mid_noise_bonus(get(r, "noise_score")), P(50))),
              Or(norm_0_5(get(r, "dessert_score")), P(50)),
              lateIfDict(get(r, "hours_json")),
              Or(norm_0_5(get(r, "aesthetic_score")), P(50)),
              walk_norm,
              Or(norm_0_5(get(r, "cleanliness_score")), P(60))>>
      [] vibe_key = "Dietary-Friendly" ->
            <<Or(bool_norm(get(r, "gf_food")), Zero),
              pageDf(get(r, "df_milks")),
              Or(bool_norm(get(r, "nut_free")), Zero),
              Or(norm_0_5(getOr(r, "ingredient_transparency_score", Three)), P(60)),
              Or(norm_0_5(get(r, "cleanliness_score")), P(60))>>
      [] vibe_key = "Study-Spot" ->
            <<Or(norm_0_5(get(r, "outlets_score")), P(50)),
              Or(norm_seating(get(r, "seating_count")), P(40)),
              Or(norm_0_5(get(r, "wifi_score")), P(60)),
              Or(norm_price_index(get(r, "price_index")), P(50)),
              lateIfDict(get(r, "hours_json")),
              Or(norm_noise_inverse(get(r, "noise_score")), P(50))>>
      [] vibe_key = "Family-Friendly" ->
            <<Or(norm_0_5(getOr(r, "space_score", get(r, "seating_comfort_score"))), P(50)),
              Or(bool_norm(get(r, "restroom_access")), P(50)),
              Or(norm_0_5(get(r, "parking_score")), P(50)),
              Or(norm_mid_noise_bonus(get(r, "noise_score")), P(50)),
              Or(norm_0_5(getOr(r, "kids_snacks_score", get(r, "dessert_score"))), P(50)),
              parks_norm>>

\* {k: 0.0 if v is None else clamp01(v) for k, v in s.items()}, or the
\* exception raised while s was built
reported(s) ==
    IF \E i \in DOMAIN s : IsRaise(s[i])
    THEN s[CHOOSE i \in DOMAIN s : IsRaise(s[i]) /\ \A j \in 1..(i - 1) : ~IsRaise(s[j])]
    ELSE List([i \in DOMAIN s |-> IF s[i] = None THEN Zero ELSE clamp01(s[i])])

\* the strengths by position; position i carries the i-th label of
\* VIBE_WEIGHTS[vibe_key]
attr_strengths(vibe_key, r, walk_norm, parks_norm) ==
    reported(pageValues(vibe_key, r, walk_norm, parks_norm))

\* a record read from a CSV row whose df_milks and wifi_score cells are blank
BlankCellsRow == [k \in {"df_milks", "wifi_score"} |-> NaN]
AboutRows == BaseRows \cup {BlankCellsRow}
AboutKeys ==
    {"hours_json", "peak_busy_penalty", "lighting_score", "noise_score",
     "mobile_order", "nearby_walkables_norm", "wifi_score"}

InitAbout ==
    /\ PlacesAtRest
    /\ parts = <<>>
    /\ ret = NoCall
    /\ row \in AboutRows
    /\ walkCount = None
    /\ parksCount = None
    /\ results = NoCall
    /\ edits = 0
    /\ base = NoCall
    /\ arg = None
    /\ out = NoCall

\* strengths = attr_strengths(vibe2, row, walk_norm, parks_norm) (line 256)
Explain(vibe_key) ==
    /\ out' = [fn |-> "attr_strengths", vibe |-> vibe_key,
               v |-> attr_strengths(vibe_key, row, norm_nearby(walkCount),
                                    norm_nearby(parksCount))]
    /\ UNCHANGED <<placesVars, parts, ret, row, walkCount, parksCount, results, edits, base, arg>>

\* the record and the counts are settled before the page explains them
NextAbout ==
    \/ \E k \in AboutKeys : \E v \in ValuesOf(k) : out = NoCall /\ SetAttr(k, v)
    \/ \E k \in AboutKeys : out = NoCall /\ DelAttr(k)
    \/ \E n \in CountVals : out = NoCall /\ SetWalk(n)
    \/ \E n \in CountVals : out = NoCall /\ SetParks(n)
    \/ \E v \in VibeNames : Explain(v)

SpecAbout == InitAbout /\ [][NextAbout]_vars

Explained == out # NoCall /\ out.fn = "attr_strengths"
\* what the scorer of the explained vibe hands to combine for the same inputs
Fed == StateParts(out.vibe)
\* a strength as a page reports it: an absent one as 0
AsReported(x) == IF x = None THEN Zero ELSE x

\* C24: for every vibe and every shop record, the per-attribute strengths
\* attr_strengths reports are the strengths the vibe's scorer feeds to
\* combine, an absent strength reported as 0; an empty hours map, a record
\* carrying peak_busy_penalty, absent ambience inputs for Date-Night and
\* unsupplied proximity norms included.
C24_PageStrengthsAreScorerStrengths ==
    Explained =>
        IF IsRaise(out.v) \/ firstRaise(Fed) # None
        THEN out.v = firstRaise(Fed)
        ELSE \A i \in DOMAIN Fed : out.v.items[i] = AsReported(Fed[i][1])

-----------------------------------------------------------------------------
(* The place-details client, src/services/places.py.  A call is a sequence
   of steps, one per HTTP request; what the Places API answers is not in the
   program's hands and is drawn from the answers below. *)

MaxsizeDetails == 256
MaxsizePhoto == 512

\* the argument tuples the pages call the two functions with
PlaceArgs ==
    {[name |-> "Blue Door", lat |-> 30, lng |-> -97, city |-> "Austin"],
     [name |-> "Corner Cup", lat |-> 30, lng |-> -97, city |-> "Austin"]}
PhotoArgs ==
    {[place_id |-> Text("ChIJ"), photo_reference |-> None],
     [place_id |-> None, photo_reference |-> Text("photo-ref")]}

\* what _safe_get_json returns for a lookup: {"_http_error": ...} after an
\* exception, a status without results, and status OK with a closest result
\* that has a place_id
LookupAnswers ==
    {[status |-> None, http_error |-> Text("HTTPError"), place_id |-> None],
     [status |-> Text("ZERO_RESULTS"), http_error |-> None, place_id |-> None],
     [status |-> Text("OK"), http_error |-> None, place_id |-> Text("ChIJ")]}

\* what it returns for a details request: a failure and a result with a
\* photo; for the photos of a place also a result without one
DetailsAnswers ==
    {[status |-> None, http_error |-> Text("HTTPError"), address |-> None,
      photo_reference |-> None],
     [status |-> Text("OK"), http_error |-> None, address |-> Text("1 Main St"),
      photo_reference |-> Text("photo-ref")]}
PhotosAnswers ==
    DetailsAnswers \cup
    {[status |-> Text("OK"), http_error |-> None, address |-> Text("1 Main St"),
      photo_reference |-> None]}

\* r.content of the photo request, None after an exception
Bytes == [t |-> "bytes"]
PhotoAnswers == {Bytes, None}

\* the entry debug keeps of an answer (error_message left out)
summary(answer) == [status |-> answer.status, http_error |-> answer.http_error]

\* the place_id a lookup's answer gives: best.get("place_id") when the status
\* is OK and there are results
yielded(answer) == IF answer.status = Text("OK") THEN answer.place_id ELSE None

\* `if not place_id` taken as true whatever place_id is
unresolved_always(p) == TRUE
\* `if not place_id`
unresolved(p) == ~truthy(p)

\* debug[k] = v
put(d, k, v) == [x \in DOMAIN d \cup {k} |-> IF x = k THEN v ELSE d[x]]

NoKeyResult ==
    [debug |-> [reason |-> "NO_KEY",
                where |-> "env GOOGLE_MAPS_API_KEY or .env in project root"]]
NoMatchResult(d) == [debug |-> IF DOMAIN d # {} THEN d ELSE [reason |-> "NO_MATCH"]]
NotOkResult(d, p) == [debug |-> d, place_id |-> p]
FoundResult(answer, d, p) ==
    [address |-> answer.address, place_id |-> p,
     photo_reference |-> answer.photo_reference, debug |-> d]

\* functools.lru_cache: the entry of arguments a, if any
has(c, a) == \E i \in DOMAIN c : c[i][1] = a
at(c, a) == c[CHOOSE i \in DOMAIN c : c[i][1] = a][2]
RECURSIVE without(_, _)
without(c, a) ==
    IF c = <<>> THEN <<>>
    ELSE IF Head(c)[1] = a THEN Tail(c) ELSE <<Head(c)>> \o without(Tail(c), a)
\* a hit makes the entry the most recently used one
touch(c, a) == Append(without(c, a), <<a, at(c, a)>>)
\* lru_cache keeping nothing
store_nothing(c, a, r, maxsize) == c
\* a miss stores the result, whatever it is, and drops the least recently
\* used entry when the cache is over its size
store(c, a, r, maxsize) ==
    IF Len(c) >= maxsize THEN Append(Tail(c), <<a, r>>) ELSE Append(c, <<a, r>>)

maxsizeOf(fn) == IF fn = "get_place_details" THEN MaxsizeDetails ELSE MaxsizePhoto

scoringVars == <<parts, ret, row, walkCount, parksCount, results, edits, base>>

InitPlaces ==
    /\ parts = <<>>
    /\ ret = NoCall
    /\ row = EmptyRow
    /\ walkCount = None
    /\ parksCount = None
    /\ results = NoCall
    /\ edits = 0
    /\ base = NoCall
    /\ arg = None
    /\ out = NoCall
    /\ env \in BOOLEAN
    /\ cache = [get_place_details |-> <<>>, get_primary_photo_bytes |-> <<>>]
    /\ pc = "idle"
    /\ key = FALSE
    /\ place_id = None
    /\ ref = None
    /\ debug = [k \in {} |-> None]
    /\ sent = <<>>

\* no call is in progress
AtRest == pc \in {"idle", "returned", "hit"}

\* the body returns r: lru_cache stores it under the call's arguments
Return(call, r) ==
    /\ out' = r
    /\ cache' = [cache EXCEPT ![call.fn] = store(@, call.a, r, maxsizeOf(call.fn))]
    /\ pc' = "returned"

\* the wrapper finds the arguments in its cache: the body does not run
Hit(call) ==
    /\ out' = at(cache[call.fn], call.a)
    /\ cache' = [cache EXCEPT ![call.fn] = touch(@, call.a)]
    /\ pc' = "hit"
    /\ UNCHANGED <<key, place_id, ref, debug>>

\* the operator sets or removes GOOGLE_MAPS_API_KEY
SetEnv(b) ==
    /\ env # b
    /\ env' = b
    /\ UNCHANGED <<scoringVars, arg, out, cache, pc, key, place_id, ref, debug, sent>>

\* get_place_details(name, lat, lng, city) up to its first request (lines 87-110)
CallPlaceDetails(a) ==
    /\ AtRest
    /\ arg' = [fn |-> "get_place_details", a |-> a]
    /\ sent' = <<>>
    /\ IF has(cache.get_place_details, a) THEN Hit(arg')
       ELSE /\ key' = env
            /\ place_id' = None
            /\ ref' = None
            /\ debug' = [k \in {} |-> None]
            /\ IF ~env THEN Return(arg', NoKeyResult)
               ELSE out' = NoCall /\ pc' = "textsearch" /\ UNCHANGED cache
    /\ UNCHANGED <<scoringVars, env>>

\* Strategy A (lines 115-124)
TextSearch(answer) ==
    /\ pc = "textsearch"
    /\ sent' = Append(sent, [url |-> "textsearch", got |-> answer])
    /\ debug' = put(debug, "textsearch", summary(answer))
    /\ place_id' = yielded(answer)
    /\ pc' = "nearbysearch"
    /\ UNCHANGED <<scoringVars, arg, out, env, cache, key, ref>>

\* Strategy B (lines 126-134)
NearbySearch(answer) ==
    /\ pc = "nearbysearch"
    /\ IF unresolved(place_id)
       THEN /\ sent' = Append(sent, [url |-> "nearbysearch", got |-> answer])
            /\ debug' = put(debug, "nearbysearch", summary(answer))
            /\ place_id' = IF answer.status = Text("OK") THEN answer.place_id ELSE place_id
       ELSE UNCHANGED <<sent, debug, place_id>>
    /\ pc' = "findplacefromtext"
    /\ UNCHANGED <<scoringVars, arg, out, env, cache, key, ref>>

\* Strategy C and the test that follows it (lines 136-158)
FindPlace(answer) ==
    /\ pc = "findplacefromtext"
    /\ IF unresolved(place_id)
       THEN /\ sent' = Append(sent, [url |-> "findplacefromtext", got |-> answer])
            /\ debug' = put(debug, "findplacefromtext", summary(answer))
            /\ place_id' = IF answer.status = Text("OK") THEN answer.place_id ELSE place_id
       ELSE UNCHANGED <<sent, debug, place_id>>
    /\ IF unresolved(place_id') THEN Return(arg, NoMatchResult(debug'))
       ELSE pc' = "details" /\ UNCHANGED <<out, cache>>
    /\ UNCHANGED <<scoringVars, arg, env, key, ref>>

\* the details request and the result built from it (lines 160-186)
Details(answer) ==
    /\ pc = "details"
    /\ sent' = Append(sent, [url |-> "details", got |-> answer])
    /\ debug' = put(debug, "details", summary(answer))
    /\ IF answer.status # Text("OK") THEN Return(arg, NotOkResult(debug', place_id))
       ELSE Return(arg, FoundResult(answer, debug', place_id))
    /\ UNCHANGED <<scoringVars, arg, env, key, place_id, ref>>

\* get_primary_photo_bytes(place_id, photo_reference) up to its first request
\* (lines 193-222)
CallPhotoBytes(a) ==
    /\ AtRest
    /\ arg' = [fn |-> "get_primary_photo_bytes", a |-> a]
    /\ sent' = <<>>
    /\ IF has(cache.get_primary_photo_bytes, a) THEN Hit(arg')
       ELSE /\ key' = env
            /\ place_id' = a.place_id
            /\ debug' = [k \in {} |-> None]
            /\ ref' = IF env THEN Or(a.photo_reference, Text("")) ELSE None
            /\ IF ~env THEN Return(arg', None)
               ELSE IF ~truthy(ref') /\ truthy(a.place_id)
                    THEN out' = NoCall /\ pc' = "photo_details" /\ UNCHANGED cache
               ELSE IF ~truthy(ref') THEN Return(arg', None)
               ELSE out' = NoCall /\ pc' = "photo" /\ UNCHANGED cache
    /\ UNCHANGED <<scoringVars, env>>

\* the details request for the photos of place_id (lines 211-219) and the
\* test of line 221
PhotoDetails(answer) ==
    /\ pc = "photo_details"
    /\ sent' = Append(sent, [url |-> "details", got |-> answer])
    /\ ref' = IF answer.status = Text("OK") /\ answer.photo_reference # None
              THEN answer.photo_reference ELSE ref
    /\ IF ~truthy(ref') THEN Return(arg, None)
       ELSE pc' = "photo" /\ UNCHANGED <<out, cache>>
    /\ UNCHANGED <<scoringVars, arg, env, key, place_id, debug>>

\* the photo request (lines 224-231)
Photo(answer) ==
    /\ pc = "photo"
    /\ sent' = Append(sent, [url |-> "photo", got |-> answer])
    /\ Return(arg, answer)
    /\ UNCHANGED <<scoringVars, arg, env, key, place_id, ref, debug>>

NextPlaces ==
    \/ \E b \in BOOLEAN : SetEnv(b)
    \/ \E a \in PlaceArgs : CallPlaceDetails(a)
    \/ \E answer \in LookupAnswers : TextSearch(answer)
    \/ \E answer \in LookupAnswers : NearbySearch(answer)
    \/ \E answer \in LookupAnswers : FindPlace(answer)
    \/ \E answer \in DetailsAnswers : Details(answer)
    \/ \E a \in PhotoArgs : CallPhotoBytes(a)
    \/ \E answer \in PhotosAnswers : PhotoDetails(answer)
    \/ \E answer \in PhotoAnswers : Photo(answer)

SpecPlaces == InitPlaces /\ [][NextPlaces]_vars

-----------------------------------------------------------------------------
(* Claims about the place-details client, checked under SpecPlaces *)

\* the body of get_place_details is running or has returned
InPlaceDetails == arg # None /\ arg.fn = "get_place_details" /\ pc # "hit"
Lookups == {"textsearch", "nearbysearch", "findplacefromtext"}
\* the i-th request of the call was a lookup that produced a place_id
Produced(i) == sent[i].url \in Lookups /\ truthy(yielded(sent[i].got))

\* C25: get_place_details tries its lookups in a fixed order: without an API
\* key it issues no HTTP request and returns a dict whose debug reason is
\* NO_KEY; otherwise text search is issued first, nearby search only if text
\* search yielded no place_id, find-place-from-text only if both earlier
\* lookups yielded none, the details request only after a lookup produced a
\* place_id, and when no lookup produces one the result is a dict holding
\* only "debug".
C25_LookupsInFixedOrder ==
    InPlaceDetails =>
        /\ ~key => (sent = <<>> /\ pc = "returned" /\ out.debug.reason = "NO_KEY")
        /\ (key /\ pc # "textsearch") => (sent # <<>> /\ sent[1].url = "textsearch")
        /\ \A i \in DOMAIN sent :
              /\ sent[i].url = "textsearch" => i = 1
              /\ sent[i].url = "nearbysearch" => (i = 2 /\ ~Produced(1))
              /\ sent[i].url = "findplacefromtext" =>
                    (i = 3 /\ sent[2].url = "nearbysearch" /\ ~Produced(1) /\ ~Produced(2))
              /\ sent[i].url = "details" => (i > 1 /\ Produced(i - 1))
        /\ (key /\ pc = "returned" /\ \A i \in DOMAIN sent : ~Produced(i)) =>
              (Len(sent) = 3 /\ DOMAIN out = {"debug"}
               /\ DOMAIN out.debug = Lookups)

\* a call with a key whose text search and nearby search found nothing and
\* whose find-place lookup produced the place_id the details were asked for
C25_Witness ==
    /\ InPlaceDetails /\ key /\ pc = "returned"
    /\ Len(sent) = 4
    /\ ~Produced(1) /\ ~Produced(2) /\ Produced(3)
    /\ sent[4].url = "details"
    /\ out.place_id = Text("ChIJ")

\* C26: get_place_details and get_primary_photo_bytes are memoized: whatever
\* a call's body returns is kept under the call's arguments, a failure
\* (NO_KEY, an HTTP error recorded in debug, None) like any other result; no
\* entry changes while the cache is below its 256 or 512 entries; and a later
\* call with arguments that have an entry issues no HTTP request and returns
\* the entry, whatever has become of the API key and the network since.
C26_LaterCallsAnsweredFromCache ==
    [][/\ pc' = "returned" =>
             (has(cache'[arg'.fn], arg'.a) /\ at(cache'[arg'.fn], arg'.a) = out')
       /\ \A fn \in DOMAIN cache : \A i \in DOMAIN cache[fn] :
             (has(cache'[fn], cache[fn][i][1])
              /\ at(cache'[fn], cache[fn][i][1]) = cache[fn][i][2])
       /\ (AtRest /\ arg' # None /\ (arg' # arg \/ sent' # sent \/ pc' # pc)
           /\ has(cache[arg'.fn], arg'.a)) =>
             (pc' = "hit" /\ sent' = <<>> /\ out' = at(cache[arg'.fn], arg'.a))
      ]_vars

\* a call answered from the cache with the NO_KEY result of an earlier call,
\* although the key is there by now
C26_Witness ==
    /\ pc = "hit" /\ arg.fn = "get_place_details"
    /\ env
    /\ out = NoKeyResult
    /\ sent = <<>>

-----------------------------------------------------------------------------
(* Claims about coverage and about single attributes, checked under Spec *)

\* the vibes whose scorers give every strength a default
AlwaysCovered ==
    {"Work-Friendly", "Aesthetic", "Grab-and-Go", "Dietary-Friendly", "Study-Spot"}

\* C27: whenever compute_all_vibes returns, whatever the record lacks and
\* whether or not the proximity counts are supplied, every VibeResult has
\* coverage >= 0.88 and confidence "High", the coverage being exactly 1.0 for
\* Work-Friendly, Aesthetic, Grab-and-Go, Dietary-Friendly and Study-Spot;
\* "Medium" and "Low" are never produced.
C27_CoverageAlwaysHigh ==
    Scored =>
        \A v \in VibeNames :
            /\ RLe(P(88), results[v].coverage)
            /\ results[v].confidence = "High"
            /\ v \in AlwaysCovered => results[v].coverage = One

\* the empty record scored without proximity counts: Date-Night and
\* Family-Friendly lose the weight of their proximity strength and nothing
\* else, and Work-Friendly, with all eight attributes missing, is fully
\* covered
C27_Witness ==
    /\ Scored
    /\ row = EmptyRow /\ walkCount = None /\ parksCount = None
    /\ results["Date-Night"].coverage = P(88)
    /\ results["Family-Friendly"].coverage = P(93)
    /\ results["Work-Friendly"].coverage = One
    /\ \A v \in VibeNames : results[v].confidence = "High"

\* r[k] = v and del r[k] on a copy of the record
WithAttr(r, k, v) == [x \in DOMAIN r \cup {k} |-> IF x = k THEN v ELSE r[x]]
WithoutAttr(r, k) == [x \in DOMAIN r \ {k} |-> r[x]]

\* the 0-5 attributes whose normalized strength enters a rubric as it is
DirectKeys ==
    {"wifi_score", "outlets_score", "cleanliness_score", "parking_score",
     "aesthetic_score", "dessert_score", "latte_art_score"}
RawSteps == 0..4

\* what compute_all_vibes returns for the state's record with attribute k at n
Rescored(k, n) == compute_all_vibes(WithAttr(row, k, Whole(n)), walkCount, parksCount)

\* C28: for each vibe and each of wifi_score, outlets_score,
\* cleanliness_score, parking_score, aesthetic_score, dessert_score and
\* latte_art_score, raising the attribute's raw value with every other input
\* fixed never lowers the vibe's score; in particular the record with the
\* attribute at 0 never scores higher than the same record with it at 1.
C28_RaisingAnAttributeNeverLowersScore ==
    Scored =>
        \A k \in DirectKeys : \A n \in RawSteps : \A v \in VibeNames :
            RLe(Rescored(k, n)[v].score, Rescored(k, n + 1)[v].score)

\* C29: for every vibe, a record in which an attribute key is present with a
\* null value (None or NaN) gets the same VibeResult as the record with that
\* key removed, the attributes with a secondary fallback
\* (natural_light_score, unique_decor_score, lighting_score,
\* seating_comfort_score, space_score, kids_snacks_score) included.
C29_NullIsLikeRemoved ==
    Scored =>
        \A k \in ScoreKeys : \A null \in {None, NaN} :
            compute_all_vibes(WithAttr(row, k, null), walkCount, parksCount)
                = compute_all_vibes(WithoutAttr(row, k), walkCount, parksCount)

\* the inputs of Date-Night's ambience composite
AmbienceKeys == {"lighting_score", "seating_comfort_score", "aesthetic_score", "noise_score"}
\* Date-Night's parts with the ambience composite taken as absent
WithoutAmbience == SetAbsent(StateParts("Date-Night"), 1)

\* C30: in date_night, when lighting_score, seating_comfort_score,
\* aesthetic_score and noise_score are all absent, the ambience composite is
\* an absent attribute: it is left out of the Date-Night blend and its 0.25
\* weight is missing from the coverage, rather than entering the blend as a
\* present strength of 0 that lowers the score.
C30_EmptyAmbienceIsAbsent ==
    (Scored /\ AmbienceKeys \cap DOMAIN row = {}) =>
        /\ StateParts("Date-Night")[1][1] = None
        /\ results["Date-Night"].coverage = combine(WithoutAmbience).c
        /\ results["Date-Night"].score = scored(WithoutAmbience, <<>>).score

=============================================================================
